------------------------------ MODULE Spec2Model ------------------------------
(***************************************************************************)
(* Model of the coordination core of AgentricAI University:                *)
(*   - TaskQueue, AgentInstance, RealTimeAgentSystem (delegateTask, the    *)
(*     100 ms ticker, processTask) of services/realTimeAgentSystem.ts;     *)
(*   - AgentricAIKnowledgeDatabase (storeKnowledge, retrieveKnowledge,     *)
(*     queryKnowledge, the realtime change handler, the access log) of     *)
(*     services/knowledgeDatabase.ts, Supabase-backed version.             *)
(*                                                                         *)
(* JavaScript runs one callback at a time, so every action below is the   *)
(* code that runs between two await points of a handler.                   *)
(*                                                                         *)
(* Strings that the code searches or concatenates (capabilities, task      *)
(* types, categories, keys, values) are sequences of one-character         *)
(* strings, so that String.includes and `${category}:${key}` are computed  *)
(* and not assumed.  Strings that are only compared for equality (agent    *)
(* ids, priorities, statuses) are TLA+ strings.                            *)
(*                                                                         *)
(* Efficiency scores are kept in hundredths (1.0 is 100, 0.01 is 1).       *)
(***************************************************************************)
EXTENDS Integers, Sequences, FiniteSets, TLC

(***************************************************************************)
(* String literals of the source.                                          *)
(***************************************************************************)
S_lesson_planning == <<"l", "e", "s", "s", "o", "n", "-", "p", "l", "a", "n", "n", "i", "n", "g">>
S_progress_tracking == <<"p", "r", "o", "g", "r", "e", "s", "s", "-", "t", "r", "a", "c", "k", "i", "n", "g">>
S_adaptive_content == <<"a", "d", "a", "p", "t", "i", "v", "e", "-", "c", "o", "n", "t", "e", "n", "t">>
S_pattern_recognition == <<"p", "a", "t", "t", "e", "r", "n", "-", "r", "e", "c", "o", "g", "n", "i", "t", "i", "o", "n">>
S_behavioral_analysis == <<"b", "e", "h", "a", "v", "i", "o", "r", "a", "l", "-", "a", "n", "a", "l", "y", "s", "i", "s">>
S_intervention_planning == <<"i", "n", "t", "e", "r", "v", "e", "n", "t", "i", "o", "n", "-", "p", "l", "a", "n", "n", "i", "n", "g">>
S_content_creation == <<"c", "o", "n", "t", "e", "n", "t", "-", "c", "r", "e", "a", "t", "i", "o", "n">>
S_difficulty_adaptation == <<"d", "i", "f", "f", "i", "c", "u", "l", "t", "y", "-", "a", "d", "a", "p", "t", "a", "t", "i", "o", "n">>
S_sensory_optimization == <<"s", "e", "n", "s", "o", "r", "y", "-", "o", "p", "t", "i", "m", "i", "z", "a", "t", "i", "o", "n">>
S_assessment == <<"a", "s", "s", "e", "s", "s", "m", "e", "n", "t">>
S_reporting == <<"r", "e", "p", "o", "r", "t", "i", "n", "g">>
S_message_routing == <<"m", "e", "s", "s", "a", "g", "e", "-", "r", "o", "u", "t", "i", "n", "g">>
S_priority_handling == <<"p", "r", "i", "o", "r", "i", "t", "y", "-", "h", "a", "n", "d", "l", "i", "n", "g">>
S_broadcast_management == <<"b", "r", "o", "a", "d", "c", "a", "s", "t", "-", "m", "a", "n", "a", "g", "e", "m", "e", "n", "t">>
S_error_detection == <<"e", "r", "r", "o", "r", "-", "d", "e", "t", "e", "c", "t", "i", "o", "n">>
S_auto_recovery == <<"a", "u", "t", "o", "-", "r", "e", "c", "o", "v", "e", "r", "y">>
S_user_notification == <<"u", "s", "e", "r", "-", "n", "o", "t", "i", "f", "i", "c", "a", "t", "i", "o", "n">>
S_generate_adaptive_content == <<"g", "e", "n", "e", "r", "a", "t", "e", "-", "a", "d", "a", "p", "t", "i", "v", "e", "-", "c", "o", "n", "t", "e", "n", "t">>
S_analyze_behavior_patterns == <<"a", "n", "a", "l", "y", "z", "e", "-", "b", "e", "h", "a", "v", "i", "o", "r", "-", "p", "a", "t", "t", "e", "r", "n", "s">>
S_unknown_type == <<"u", "n", "k", "n", "o", "w", "n", "-", "t", "y", "p", "e">>
S_task_results == <<"t", "a", "s", "k", "_", "r", "e", "s", "u", "l", "t", "s">>
S_assess_learning_progress == <<"a", "s", "s", "e", "s", "s", "-", "l", "e", "a", "r", "n", "i", "n", "g", "-", "p", "r", "o", "g", "r", "e", "s", "s">>
S_create_lesson_plan == <<"c", "r", "e", "a", "t", "e", "-", "l", "e", "s", "s", "o", "n", "-", "p", "l", "a", "n">>
S_monitor_student_engagement == <<"m", "o", "n", "i", "t", "o", "r", "-", "s", "t", "u", "d", "e", "n", "t", "-", "e", "n", "g", "a", "g", "e", "m", "e", "n", "t">>
S_task_prefix == <<"t", "a", "s", "k", "-">>
J_assessLearningProgress == <<"{", "\"", "s", "t", "r", "e", "n", "g", "t", "h", "s", "\"", ":", "[", "\"", "v", "i", "s", "u", "a", "l", " ", "l", "e", "a", "r", "n", "i", "n", "g", "\"", ",", "\"", "p", "a", "t", "t", "e", "r", "n", " ", "r", "e", "c", "o", "g", "n", "i", "t", "i", "o", "n", "\"", "]", ",", "\"", "c", "o", "n", "f", "i", "d", "e", "n", "c", "e", "\"", ":", "0", ".", "8", "5", "}">>
J_generateAdaptiveContent == <<"{", "\"", "d", "i", "f", "f", "i", "c", "u", "l", "t", "y", "\"", ":", "\"", "m", "e", "d", "i", "u", "m", "\"", ",", "\"", "f", "o", "r", "m", "a", "t", "\"", ":", "\"", "i", "n", "t", "e", "r", "a", "c", "t", "i", "v", "e", "\"", ",", "\"", "e", "s", "t", "i", "m", "a", "t", "e", "d", "D", "u", "r", "a", "t", "i", "o", "n", "\"", ":", "\"", "1", "5", " ", "m", "i", "n", "u", "t", "e", "s", "\"", "}">>
J_analyzeBehaviorPatterns == <<"{", "\"", "r", "e", "c", "o", "m", "m", "e", "n", "d", "a", "t", "i", "o", "n", "s", "\"", ":", "[", "\"", "C", "o", "n", "t", "i", "n", "u", "e", " ", "w", "i", "t", "h", " ", "v", "i", "s", "u", "a", "l", "-", "h", "e", "a", "v", "y", " ", "c", "o", "n", "t", "e", "n", "t", "\"", ",", "\"", "C", "o", "n", "s", "i", "d", "e", "r", " ", "1", "0", "-", "m", "i", "n", "u", "t", "e", " ", "l", "e", "a", "r", "n", "i", "n", "g", " ", "b", "l", "o", "c", "k", "s", "\"", "]", "}">>
J_createLessonPlan == <<"{", "\"", "t", "i", "t", "l", "e", "\"", ":", "\"", "A", "d", "a", "p", "t", "i", "v", "e", " ", "L", "e", "a", "r", "n", "i", "n", "g", " ", "S", "e", "s", "s", "i", "o", "n", "\"", ",", "\"", "d", "u", "r", "a", "t", "i", "o", "n", "\"", ":", "\"", "2", "0", " ", "m", "i", "n", "u", "t", "e", "s", "\"", "}">>
J_monitorStudentEngagement == <<"{", "\"", "e", "n", "g", "a", "g", "e", "m", "e", "n", "t", "L", "e", "v", "e", "l", "\"", ":", "0", ".", "6", ",", "\"", "a", "t", "t", "e", "n", "t", "i", "o", "n", "S", "p", "a", "n", "\"", ":", "8", ",", "\"", "n", "e", "e", "d", "s", "S", "u", "p", "p", "o", "r", "t", "\"", ":", "f", "a", "l", "s", "e", "}">>
J_defaultResult == <<"{", "\"", "s", "t", "a", "t", "u", "s", "\"", ":", "\"", "c", "o", "m", "p", "l", "e", "t", "e", "d", "\"", "}">>
S_query_prefix == <<"q", "u", "e", "r", "y", ":">>

(***************************************************************************)
(* Bounds of the model.                                                    *)
(***************************************************************************)
\* Task objects created in one run (delegateTask and TaskQueue.enqueue).
MaxTasks == 2
\* Task objects created in a run of the queue taken alone.
MaxQueueTasks == 4
\* Callers of the knowledge store other than processTask.
MaxClients == 2
\* Accesses logged in one run of the knowledge store taken alone.
MaxAccesses == 2

(***************************************************************************)
(* JavaScript helpers.                                                     *)
(***************************************************************************)
\* String.prototype.includes: sub occurs in s as a contiguous substring.
Includes(s, sub) ==
  \E i \in 0..(Len(s) - Len(sub)) :
    \A j \in 1..Len(sub) : s[i + j] = sub[j]

\* Insertion of the pair x = [score, item] into a sequence of pairs sorted by
\* non-increasing score, after the pairs whose score is at least that of x.
RECURSIVE InsertByScore(_, _)
InsertByScore(sorted, x) ==
  IF sorted = <<>> THEN <<x>>
  ELSE IF Head(sorted).score >= x.score
       THEN <<Head(sorted)>> \o InsertByScore(Tail(sorted), x)
       ELSE <<x>> \o sorted

\* Array.prototype.sort((a, b) => b.score - a.score) on a sequence of pairs
\* [score, item]: a stable sort by score, descending.
RECURSIVE SortByScoreDesc(_)
SortByScoreDesc(pairs) ==
  IF pairs = <<>> THEN <<>>
  ELSE InsertByScore(SortByScoreDesc(SubSeq(pairs, 1, Len(pairs) - 1)),
                     pairs[Len(pairs)])

(***************************************************************************)
(* JavaScript values.  A value is a record tagged with its type; an        *)
(* object is represented by its JSON text.                                 *)
(***************************************************************************)
Undefined == [t |-> "undefined"]
Null == [t |-> "null"]
Num(n) == [t |-> "number", n |-> n]
Str(s) == [t |-> "string", s |-> s]
Obj(json) == [t |-> "object", json |-> json]
EmptyObject == Obj(<<"{", "}">>)
TypeError == [t |-> "error", name |-> "TypeError"]

\* ToBoolean: undefined, null, 0 and "" are falsy; objects are truthy.
Truthy(v) ==
  CASE v.t = "undefined" -> FALSE
    [] v.t = "null" -> FALSE
    [] v.t = "number" -> v.n # 0
    [] v.t = "string" -> v.s # <<>>
    [] OTHER -> TRUE

\* Reading a property of v throws a TypeError when v is null or undefined.
PropertyReadThrows(v) == v.t \in {"undefined", "null"}

(***************************************************************************)
(* TaskQueue (realTimeAgentSystem.ts).  queues maps each lane to the       *)
(* sequence of Task objects in it; a Task object is named by its index in  *)
(* the variable tasks.                                                     *)
(***************************************************************************)
\* Insertion order of the Map of queues: the order in which dequeue scans.
LaneOrder == <<"critical", "high", "medium", "low">>
EmptyQueues == [lane \in {"critical", "high", "medium", "low"} |-> <<>>]
\* The value dequeue returns when every lane is empty (null).
NoTask == 0

\* this.queues.get(task.priority) || this.queues.get('medium')
LaneFor(qs, priority) == IF priority \in DOMAIN qs THEN priority ELSE "medium"

enqueue(qs, task, priority) ==
  [qs EXCEPT ![LaneFor(qs, priority)] = Append(@, task)]

\* dequeue: shift() of the first non-empty lane in the Map's order.
dequeueLaneInOrder(qs, order) ==
  LET nonEmpty == {i \in 1..Len(order) : qs[order[i]] # <<>>}
  IN  IF nonEmpty = {} THEN [task |-> NoTask, queues |-> qs]
      ELSE LET first == CHOOSE i \in nonEmpty : \A j \in nonEmpty : i <= j
               lane == order[first]
           IN  [task |-> Head(qs[lane]),
                queues |-> [qs EXCEPT ![lane] = Tail(@)]]

\* A dequeue that scans the lanes from the last to the first.
dequeueLowestFirst(qs) ==
  dequeueLaneInOrder(qs, <<"low", "medium", "high", "critical">>)

dequeue(qs) == dequeueLaneInOrder(qs, LaneOrder)

hasWork(qs) == \E lane \in DOMAIN qs : Len(qs[lane]) > 0

RECURSIVE SumLengths(_, _)
SumLengths(qs, lanes) ==
  IF lanes = {} THEN 0
  ELSE LET lane == CHOOSE l \in lanes : TRUE
       IN  Len(qs[lane]) + SumLengths(qs, lanes \ {lane})

size(qs) == SumLengths(qs, DOMAIN qs)

\* The Task objects held by the queue.
Queued(qs) == UNION {{qs[lane][i] : i \in 1..Len(qs[lane])} : lane \in DOMAIN qs}

(***************************************************************************)
(* AgentInstance (realTimeAgentSystem.ts).                                 *)
(***************************************************************************)
\* private efficiencyScore: number = 1.0
InitialEfficiency == 100
\* Math.min(1.0, ...) and Math.max(0.1, ...) of updateEfficiency
EfficiencyMax == 100
EfficiencyMin == 10
\* + 0.01 on success, - 0.05 on failure
SuccessIncrement == 1
FailurePenalty == 5

Min(a, b) == IF a <= b THEN a ELSE b
Max(a, b) == IF a >= b THEN a ELSE b

\* The agent configurations of deployAgentFleet, in deployment order (the
\* name, type, specialization and priority of a configuration are not read
\* by any operation modelled here).
AgentConfigs ==
  << [id |-> "learning-coordinator",
      capabilities |-> <<S_lesson_planning, S_progress_tracking, S_adaptive_content>>],
     [id |-> "behavior-analyst",
      capabilities |-> <<S_pattern_recognition, S_behavioral_analysis, S_intervention_planning>>],
     [id |-> "content-generator",
      capabilities |-> <<S_content_creation, S_difficulty_adaptation, S_sensory_optimization>>],
     [id |-> "progress-monitor",
      capabilities |-> <<S_progress_tracking, S_assessment, S_reporting>>],
     [id |-> "communication-router",
      capabilities |-> <<S_message_routing, S_priority_handling, S_broadcast_management>>],
     [id |-> "error-handler",
      capabilities |-> <<S_error_detection, S_auto_recovery, S_user_notification>>] >>

\* An AgentInstance set in the Map as constructed, initialize() not run.
NewAgentUninitialized(config) ==
  [id |-> config.id,
   capabilities |-> config.capabilities,
   status |-> "initializing",
   efficiencyScore |-> InitialEfficiency,
   taskHistory |-> <<>>]

\* new AgentInstance(config, supabase) followed by agent.initialize(): the
\* agent enters the Map of active agents with status 'active'.
NewAgent(config) ==
  [id |-> config.id,
   capabilities |-> config.capabilities,
   status |-> "active",
   efficiencyScore |-> InitialEfficiency,
   taskHistory |-> <<>>]

\* canHandle: some capability is a substring of taskType or contains it.
canHandle(capabilities, taskType) ==
  \E i \in 1..Len(capabilities) :
    Includes(taskType, capabilities[i]) \/ Includes(capabilities[i], taskType)

\* An update of the efficiency score that does not clamp it.
updateEfficiencyUnclamped(score, success) ==
  IF success THEN score + SuccessIncrement ELSE score - FailurePenalty

updateEfficiency(score, success) ==
  IF success THEN Min(EfficiencyMax, score + SuccessIncrement)
  ELSE Max(EfficiencyMin, score - FailurePenalty)

\* performTaskExecution after its timer: the switch on task.type.  The
\* handlers of three task types read a property of the parameters and throw
\* a TypeError when the parameters are null or undefined.
performTaskExecution(type, parameters) ==
  CASE type = S_assess_learning_progress ->
         IF PropertyReadThrows(parameters) THEN [ok |-> FALSE, value |-> TypeError]
         ELSE [ok |-> TRUE, value |-> Obj(J_assessLearningProgress)]
    [] type = S_generate_adaptive_content ->
         IF PropertyReadThrows(parameters) THEN [ok |-> FALSE, value |-> TypeError]
         ELSE [ok |-> TRUE, value |-> Obj(J_generateAdaptiveContent)]
    [] type = S_analyze_behavior_patterns ->
         [ok |-> TRUE, value |-> Obj(J_analyzeBehaviorPatterns)]
    [] type = S_create_lesson_plan ->
         IF PropertyReadThrows(parameters) THEN [ok |-> FALSE, value |-> TypeError]
         ELSE [ok |-> TRUE, value |-> Obj(J_createLessonPlan)]
    [] type = S_monitor_student_engagement ->
         [ok |-> TRUE, value |-> Obj(J_monitorStudentEngagement)]
    [] OTHER -> [ok |-> TRUE, value |-> Obj(J_defaultResult)]

\* Position in agents (a Map in insertion order) of the agent with this id,
\* 0 when there is none (Map.get returns undefined).
AgentIndex(agents, id) ==
  IF \E i \in 1..Len(agents) : agents[i].id = id
  THEN CHOOSE i \in 1..Len(agents) : agents[i].id = id
  ELSE 0

\* A findBestAgent that takes the first agent able to handle the task type,
\* without sorting by efficiency.
findFirstCapableAgent(agents, taskType) ==
  LET capable == {i \in 1..Len(agents) : canHandle(agents[i].capabilities, taskType)}
  IN  IF capable = {} THEN 0 ELSE CHOOSE i \in capable : \A j \in capable : i <= j

\* findBestAgent: the agents that can handle the task type, sorted by
\* efficiency score, descending; the first of them, or 0 (null).
findBestAgent(agents, taskType) ==
  LET indices == [i \in 1..Len(agents) |-> i]
      capable(i) == canHandle(agents[i].capabilities, taskType)
      filtered == SelectSeq(indices, capable)
      candidates == SortByScoreDesc(
        [k \in 1..Len(filtered) |->
           [score |-> agents[filtered[k]].efficiencyScore, item |-> filtered[k]]])
  IN  IF candidates = <<>> THEN 0 ELSE candidates[1].item

(***************************************************************************)
(* AgentricAIKnowledgeDatabase (knowledgeDatabase.ts, Supabase version):   *)
(* data.  The primary backend is the table agentricai_knowledge_base, a    *)
(* set of rows with primary key id; the local store is the Map             *)
(* localKnowledge, a sequence of entries in insertion order.               *)
(***************************************************************************)
\* Keep only last 1000 entries in memory
AccessLogCap == 1000
\* .limit(10) and results.slice(0, 10)
QueryLimit == 10
\* The confidence processTask stores a task result with (0.9), and the
\* default confidence of storeKnowledge (1.0), in hundredths.
TaskResultConfidence == 90
DefaultConfidence == 100

\* const knowledgeId = `${category}:${key}`
KnowledgeId(category, key) == category \o <<":">> \o key

\* The knowledgeEntry object of storeKnowledge.  The tags and relationships
\* of an entry are functions of its category and value alone and are read
\* by no operation modelled here; the relationships reach the knowledge
\* graph through FindRelationships.
KnowledgeEntry(category, key, value, sourceAgent, confidence) ==
  [id |-> KnowledgeId(category, key),
   category |-> category,
   key |-> key,
   value |-> value,
   confidence_score |-> confidence,
   source_agent |-> IF sourceAgent = "" THEN "system" ELSE sourceAgent,
   access_count |-> 0]

\* Map.has / Map.get / Map.set on a Map kept as a sequence of entries.
MapIndex(m, id) ==
  IF \E i \in 1..Len(m) : m[i].id = id
  THEN CHOOSE i \in 1..Len(m) : m[i].id = id
  ELSE 0
MapHas(m, id) == MapIndex(m, id) # 0
MapGet(m, id) == m[MapIndex(m, id)]
\* A Map.set that keeps an entry of higher confidence.
MapSetKeepHigherConfidence(m, id, entry) ==
  IF MapHas(m, id)
  THEN IF MapGet(m, id).confidence_score > entry.confidence_score THEN m
       ELSE [m EXCEPT ![MapIndex(m, id)] = entry]
  ELSE Append(m, entry)
MapSet(m, id, entry) ==
  IF MapHas(m, id) THEN [m EXCEPT ![MapIndex(m, id)] = entry]
  ELSE Append(m, entry)

\* upsert(row) on the primary table: the row with the same id is replaced.
Upsert(rows, row) == {r \in rows : r.id # row.id} \cup {row}
\* select('*').eq('category', category).eq('key', key)
SelectByCategoryKey(rows, category, key) ==
  {r \in rows : r.category = category /\ r.key = key}

\* findRelationships: category_peers = [category]; the values modelled have
\* no string property containing '_', so there are no references.
FindRelationships(category, value) == {<<"category_peers", category>>}

\* updateKnowledgeGraph: the node of the entry gains its relationships.
updateKnowledgeGraph(graph, category, key, relationships) ==
  LET nodeId == KnowledgeId(category, key)
      old == IF nodeId \in DOMAIN graph THEN graph[nodeId] ELSE {}
  IN  [n \in DOMAIN graph \cup {nodeId} |->
         IF n = nodeId THEN old \cup relationships ELSE graph[n]]

\* logKnowledgeAccess up to its await: push, then keep the last 1000.
LogEntry(agentId, knowledgeKey, accessType, context) ==
  [agent_id |-> agentId, knowledge_key |-> knowledgeKey,
   access_type |-> accessType, context |-> context]
\* A push on the access log that keeps every entry.
PushAccessLogUncapped(log, entry) == Append(log, entry)
PushAccessLog(log, entry) ==
  LET pushed == Append(log, entry)
  IN  IF Len(pushed) > AccessLogCap
      THEN SubSeq(pushed, Len(pushed) - AccessLogCap + 1, Len(pushed))
      ELSE pushed

\* knowledge?.value || null
ValueOrNull(knowledge) ==
  IF knowledge = Null THEN Null
  ELSE IF Truthy(knowledge.value) THEN knowledge.value ELSE Null

(***************************************************************************)
(* State.                                                                  *)
(***************************************************************************)
VARIABLES
  \* RealTimeAgentSystem
  fleet,           \* the configurations deployAgentFleet goes through
  deployed,        \* how many of them have been deployed
  activeAgents,    \* Map id -> AgentInstance, in insertion order
  tickerStarted,   \* startTaskProcessing has set the interval
  queues,          \* TaskQueue.queues
  tasks,           \* the Task objects created, in creation order
  procPc,          \* per Task: where its processTask invocation stands
  delegateResult,  \* outcome of the most recent delegateTask call
  \* AgentricAIKnowledgeDatabase
  supabase,        \* "client" or "null" (local mode)
  remoteKB,        \* rows of the primary table agentricai_knowledge_base
  localKnowledge,  \* Map id -> entry
  knowledgeGraph,  \* Map node id -> Set of relationships
  accessLog,       \* the in-memory access log
  changeFeed,      \* postgres_changes events not yet delivered
  kbCalls,         \* per caller: its knowledge-store call and where it stands
  \* SQLiteDatabase (the backend of the SQLite-backed knowledge database)
  sqliteDb,        \* the tables knowledge_base, agents and activity_logs
  \* WorkflowEngine
  workflowRuns,    \* the executeWorkflow invocations and where they stand
  \* StealthAgentEcosystem
  ecosystem,       \* the agent registries and the registerAgent invocations
  \* History kept for the properties only
  lastWrite        \* the most recent write of storeKnowledge

dispatchVars ==
  <<fleet, deployed, activeAgents, tickerStarted, queues, tasks, procPc,
    delegateResult>>
kbVars ==
  <<supabase, remoteKB, localKnowledge, knowledgeGraph, accessLog, changeFeed,
    kbCalls, lastWrite>>
extVars == <<sqliteDb, workflowRuns, ecosystem>>
vars ==
  <<fleet, deployed, activeAgents, tickerStarted, queues, tasks, procPc,
    delegateResult, supabase, remoteKB, localKnowledge, knowledgeGraph,
    accessLog, changeFeed, kbCalls, lastWrite, sqliteDb, workflowRuns,
    ecosystem>>

\* The SQLite database after initializeTables, and no workflow invoked.
EmptySqliteDb == [knowledge_base |-> {}, agents |-> {}, activity_logs |-> <<>>]
\* The StealthAgentEcosystem of one of the three registerAgent definitions
\* ("sqlite", "insert", "upsert"), nothing registered.
EmptyEcosystem(version) ==
  [version |-> version, stealth_agent_registry |-> {}, localAgentRegistry |-> <<>>,
   calls |-> <<>>]
InitExt ==
  /\ sqliteDb = EmptySqliteDb
  /\ workflowRuns = <<>>
  /\ ecosystem = EmptyEcosystem("sqlite")

(***************************************************************************)
(* Knowledge store: search.                                                *)
(***************************************************************************)
\* toLowerCase on one character (the upper-case letters the model uses).
LowerChar(ch) ==
  CASE ch = "A" -> "a" [] ch = "B" -> "b" [] ch = "C" -> "c" [] ch = "K" -> "k"
    [] ch = "X" -> "x"
    [] OTHER -> ch
ToLowerCase(s) == [i \in 1..Len(s) |-> LowerChar(s[i])]

Digits == <<"0", "1", "2", "3", "4", "5", "6", "7", "8", "9">>

\* JSON.stringify (and value::text of the primary) of a modelled value.
JsonStringify(v) ==
  CASE v.t = "number" -> <<Digits[v.n + 1]>>
    [] v.t = "string" -> <<"\"">> \o v.s \o <<"\"">>
    [] v.t = "object" -> v.json
    [] OTHER -> <<"n", "u", "l", "l">>

\* The test of the local search, and of the primary's
\* key.ilike.%query%,value::text.ilike.%query% (no wildcard in the query).
MatchesQuery(entry, query) ==
  \/ Includes(ToLowerCase(entry.key), ToLowerCase(query))
  \/ Includes(ToLowerCase(JsonStringify(entry.value)), ToLowerCase(query))

\* A local search that leaves the matching entries in the Map's order.
LocalSearchUnsorted(m, query) ==
  LET matching(e) == MatchesQuery(e, query)
  IN  SelectSeq(m, matching)

\* The local search: the matching entries in the Map's order, then
\* results.sort((a, b) => b.confidence_score - a.confidence_score).
LocalSearch(m, query) ==
  LET matching(e) == MatchesQuery(e, query)
      found == SelectSeq(m, matching)
      sorted == SortByScoreDesc(
        [k \in 1..Len(found) |-> [score |-> found[k].confidence_score, item |-> found[k]]])
  IN  [k \in 1..Len(sorted) |-> sorted[k].item]

\* What the primary may answer to the search: the matching rows ordered by
\* confidence_score descending (rows of equal confidence in any order), at
\* most 10 of them.
PrimarySearchResults(rows, query) ==
  LET matching == {r \in rows : MatchesQuery(r, query)}
      n == Cardinality(matching)
      orders == {f \in [1..n -> matching] :
                   /\ \A i, j \in 1..n : i # j => f[i] # f[j]
                   /\ \A i \in 1..(n - 1) :
                        f[i].confidence_score >= f[i + 1].confidence_score}
  IN  {SubSeq(f, 1, Min(QueryLimit, n)) : f \in orders}

(***************************************************************************)
(* Knowledge store: the calls.  A caller has at most one call in progress; *)
(* kbCalls[c] keeps the arguments, the local variables and, once the call  *)
(* has returned, the value returned.  pc is the await the call stands at.  *)
(***************************************************************************)
TaskCaller(t) == <<"task", t>>
ClientCaller(i) == <<"client", i>>
Callers ==
  {TaskCaller(t) : t \in 1..MaxTasks} \cup {ClientCaller(i) : i \in 1..MaxClients}

IdleCall ==
  [op |-> "idle", pc |-> "idle", category |-> <<>>, key |-> <<>>,
   agent |-> "", query |-> <<>>, knowledge |-> Null, results |-> <<>>,
   ret |-> Undefined, primary |-> "none"]

NoWrite == [target |-> "none"]

CanCall(c) == kbCalls[c].pc \in {"idle", "returned"}

\* A storeKnowledge that sets the entry in the local Map whatever the
\* answer of the primary.
StoreWriteBoth(c, call, target) ==
  LET entry == call.knowledge
      logged == call.agent # "system-init"
  IN  /\ remoteKB' = IF target = "primary" THEN Upsert(remoteKB, entry) ELSE remoteKB
      /\ changeFeed' =
           IF target = "primary"
           THEN Append(changeFeed,
                  [eventType |-> IF \E r \in remoteKB : r.id = entry.id
                                 THEN "UPDATE" ELSE "INSERT",
                   new |-> entry])
           ELSE changeFeed
      /\ localKnowledge' =
           MapSet(localKnowledge, entry.id, entry)
      /\ knowledgeGraph' =
           updateKnowledgeGraph(knowledgeGraph, entry.category, entry.key,
                                FindRelationships(entry.category, entry.value))
      /\ accessLog' =
           IF logged
           THEN PushAccessLog(accessLog,
                  LogEntry(entry.source_agent, entry.id, "store",
                           [confidence |-> entry.confidence_score]))
           ELSE accessLog
      /\ lastWrite' = [target |-> target, caller |-> c, category |-> entry.category,
                       key |-> entry.key, value |-> entry.value,
                       confidence |-> entry.confidence_score]
      /\ kbCalls' = [kbCalls EXCEPT ![c] =
           [call EXCEPT !.pc = IF logged THEN "log" ELSE "returned",
                        !.ret = Str(entry.id)]]

\* storeKnowledge from the write to the await of logKnowledgeAccess (or to
\* the return): the entry goes to the primary table when the upsert
\* succeeded and to the local Map otherwise; then the knowledge graph and
\* the access log.  target is "primary" or "local".
StoreWrite(c, call, target) ==
  LET entry == call.knowledge
      logged == call.agent # "system-init"
  IN  /\ remoteKB' = IF target = "primary" THEN Upsert(remoteKB, entry) ELSE remoteKB
      /\ changeFeed' =
           IF target = "primary"
           THEN Append(changeFeed,
                  [eventType |-> IF \E r \in remoteKB : r.id = entry.id
                                 THEN "UPDATE" ELSE "INSERT",
                   new |-> entry])
           ELSE changeFeed
      /\ localKnowledge' =
           IF target = "local" THEN MapSet(localKnowledge, entry.id, entry)
           ELSE localKnowledge
      /\ knowledgeGraph' =
           updateKnowledgeGraph(knowledgeGraph, entry.category, entry.key,
                                FindRelationships(entry.category, entry.value))
      /\ accessLog' =
           IF logged
           THEN PushAccessLog(accessLog,
                  LogEntry(entry.source_agent, entry.id, "store",
                           [confidence |-> entry.confidence_score]))
           ELSE accessLog
      /\ lastWrite' = [target |-> target, caller |-> c, category |-> entry.category,
                       key |-> entry.key, value |-> entry.value,
                       confidence |-> entry.confidence_score]
      /\ kbCalls' = [kbCalls EXCEPT ![c] =
           [call EXCEPT !.pc = IF logged THEN "log" ELSE "returned",
                        !.ret = Str(entry.id)]]

\* storeKnowledge(category, key, value, sourceAgent, confidence) up to its
\* first await: with a Supabase client the upsert is sent; in local mode
\* the call runs to the await of logKnowledgeAccess.
StoreKnowledgeCall(c, category, key, value, sourceAgent, confidence) ==
  LET call == [IdleCall EXCEPT
                 !.op = "store", !.category = category, !.key = key,
                 !.agent = sourceAgent,
                 !.knowledge = KnowledgeEntry(category, key, value, sourceAgent, confidence)]
  IN  IF supabase = "client"
      THEN /\ kbCalls' = [kbCalls EXCEPT ![c] = [call EXCEPT !.pc = "upsert"]]
           /\ UNCHANGED <<extVars, supabase, remoteKB, localKnowledge, knowledgeGraph,
                          accessLog, changeFeed, lastWrite>>
      ELSE /\ StoreWrite(c, call, "local")
           /\ UNCHANGED <<extVars, supabase>>

\* A storeKnowledge that gives up when the upsert fails.
StoreUpsertResponseNoFallback(c, ok) ==
  /\ kbCalls[c].op = "store" /\ kbCalls[c].pc = "upsert"
  /\ IF ok
     THEN StoreWrite(c, [kbCalls[c] EXCEPT !.primary = "ok"], "primary")
     ELSE /\ kbCalls' = [kbCalls EXCEPT ![c].pc = "returned", ![c].primary = "failed"]
          /\ UNCHANGED <<remoteKB, localKnowledge, knowledgeGraph, accessLog,
                         changeFeed, lastWrite>>
  /\ UNCHANGED <<extVars, supabase>>

\* The upsert has answered: ok, or an error (returned or thrown), which
\* the catch turns into the local write.
StoreUpsertResponse(c, ok) ==
  /\ kbCalls[c].op = "store" /\ kbCalls[c].pc = "upsert"
  /\ StoreWrite(c, [kbCalls[c] EXCEPT !.primary = IF ok THEN "ok" ELSE "failed"],
                IF ok THEN "primary" ELSE "local")
  /\ UNCHANGED <<extVars, supabase>>

\* The await of logKnowledgeAccess is over and the call returns.  With a
\* client the insert into agentricai_knowledge_access_log has answered, a
\* failure being caught and ignored; without one the call resumes after
\* whatever else was ready to run.
LogInsertResponse(c, ok) ==
  /\ kbCalls[c].pc = "log"
  /\ ok \in BOOLEAN
  /\ kbCalls' = [kbCalls EXCEPT ![c].pc = "returned"]
  /\ UNCHANGED <<extVars, supabase, remoteKB, localKnowledge, knowledgeGraph, accessLog,
                 changeFeed, lastWrite>>

\* handleKnowledgeChange for an INSERT or UPDATE event: the new row is set
\* in the local Map and its relationships enter the knowledge graph.
HandleKnowledgeChange ==
  /\ changeFeed # <<>>
  /\ LET newRecord == Head(changeFeed).new
     IN  /\ localKnowledge' =
              MapSet(localKnowledge, KnowledgeId(newRecord.category, newRecord.key),
                     newRecord)
         /\ knowledgeGraph' =
              updateKnowledgeGraph(knowledgeGraph, newRecord.category, newRecord.key,
                                   FindRelationships(newRecord.category, newRecord.value))
  /\ changeFeed' = Tail(changeFeed)
  /\ UNCHANGED <<extVars, supabase, remoteKB, accessLog, kbCalls, lastWrite>>

\* retrieveKnowledge from `if (!knowledge)` to the await of
\* logKnowledgeAccess (or to the return).  call.knowledge is the row the
\* primary gave, or Null.  A local hit counts an access on the local entry.
\* The retrieval is logged only when something was found, and the value
\* returned is knowledge?.value || null.
RetrieveLocalAndLog(c, call) ==
  LET knowledgeId == KnowledgeId(call.category, call.key)
      localHit == call.knowledge = Null /\ MapHas(localKnowledge, knowledgeId)
      counted == [MapGet(localKnowledge, knowledgeId) EXCEPT !.access_count = @ + 1]
      knowledge == IF call.knowledge # Null THEN call.knowledge
                   ELSE IF localHit THEN counted ELSE Null
  IN  /\ localKnowledge' =
           IF localHit THEN MapSet(localKnowledge, knowledgeId, counted)
           ELSE localKnowledge
      /\ accessLog' =
           IF knowledge # Null
           THEN PushAccessLog(accessLog,
                  LogEntry(IF call.agent = "" THEN "unknown" ELSE call.agent,
                           knowledgeId, "retrieve",
                           [confidence |-> knowledge.confidence_score]))
           ELSE accessLog
      /\ kbCalls' = [kbCalls EXCEPT ![c] =
           [call EXCEPT !.knowledge = knowledge,
                        !.pc = IF knowledge # Null THEN "log" ELSE "returned",
                        !.ret = ValueOrNull(knowledge)]]
      /\ UNCHANGED <<extVars, supabase, knowledgeGraph, lastWrite>>

\* retrieveKnowledge(category, key, requestingAgent) up to its first await.
RetrieveKnowledgeCall(c, category, key, requestingAgent) ==
  LET call == [IdleCall EXCEPT
                 !.op = "retrieve", !.category = category, !.key = key,
                 !.agent = requestingAgent]
  IN  IF supabase = "client"
      THEN /\ kbCalls' = [kbCalls EXCEPT ![c] = [call EXCEPT !.pc = "select"]]
           /\ UNCHANGED <<extVars, supabase, remoteKB, localKnowledge, knowledgeGraph,
                          accessLog, changeFeed, lastWrite>>
      ELSE /\ RetrieveLocalAndLog(c, call)
           /\ UNCHANGED <<remoteKB, changeFeed>>

\* The select ... .single() has answered.  With a row the update of its
\* access count is sent; with an error (no row is one) or a failure the
\* local Map is read.
RetrieveSelectResponse(c, ok) ==
  /\ kbCalls[c].op = "retrieve" /\ kbCalls[c].pc = "select"
  /\ LET rows == SelectByCategoryKey(remoteKB, kbCalls[c].category, kbCalls[c].key)
     IN  IF ok /\ rows # {}
         THEN /\ kbCalls' = [kbCalls EXCEPT
                   ![c].knowledge = CHOOSE r \in rows : TRUE,
                   ![c].primary = "ok", ![c].pc = "update"]
              /\ UNCHANGED <<extVars, supabase, remoteKB, localKnowledge, knowledgeGraph,
                             accessLog, changeFeed, lastWrite>>
         ELSE /\ RetrieveLocalAndLog(c, [kbCalls[c] EXCEPT
                   !.primary = IF ok THEN "miss" ELSE "failed"])
              /\ UNCHANGED <<remoteKB, changeFeed>>

\* The update({access_count: data.access_count + 1}).eq('id', data.id) has
\* answered; its outcome is not looked at.  The count written is the one
\* read by the select plus one.
RetrieveUpdateResponse(c, ok) ==
  /\ kbCalls[c].op = "retrieve" /\ kbCalls[c].pc = "update"
  /\ LET data == kbCalls[c].knowledge
         hit == {r \in remoteKB : r.id = data.id}
         updated == {[r EXCEPT !.access_count = data.access_count + 1] : r \in hit}
     IN  IF ok /\ hit # {}
         THEN /\ remoteKB' = (remoteKB \ hit) \cup updated
              /\ changeFeed' = Append(changeFeed,
                   [eventType |-> "UPDATE", new |-> CHOOSE r \in updated : TRUE])
         ELSE UNCHANGED <<remoteKB, changeFeed>>
  /\ RetrieveLocalAndLog(c, kbCalls[c])

\* A queryKnowledge that searches the local Map only when the primary
\* search has failed or there is no primary.
queryResultsPrimaryElseLocal(primaryOk, data, m, query) ==
  IF primaryOk THEN data ELSE LocalSearch(m, query)

\* The results of queryKnowledge: the rows the primary gave, if any;
\* `if (results.length === 0)` the local search.
queryResults(primaryOk, data, m, query) ==
  LET results == IF primaryOk THEN data ELSE <<>>
  IN  IF Len(results) = 0 THEN LocalSearch(m, query) ELSE results

\* queryKnowledge from the answer of the primary to the await of
\* logKnowledgeAccess (or to the return).
QueryFinish(c, call, primaryOk, data) ==
  LET results == queryResults(primaryOk, data, localKnowledge, call.query)
  IN  /\ accessLog' =
           PushAccessLog(accessLog,
             LogEntry(IF call.agent = "" THEN "unknown" ELSE call.agent,
                      S_query_prefix \o call.query, "query",
                      [results_count |-> Len(results)]))
      /\ kbCalls' = [kbCalls EXCEPT ![c] =
           [call EXCEPT !.results = SubSeq(results, 1, Min(QueryLimit, Len(results))),
                        !.pc = "log"]]
      /\ UNCHANGED <<extVars, supabase, remoteKB, localKnowledge, knowledgeGraph,
                     changeFeed, lastWrite>>

\* queryKnowledge(query, requestingAgent) up to its first await.
QueryKnowledgeCall(c, query, requestingAgent) ==
  LET call == [IdleCall EXCEPT !.op = "query", !.query = query,
                               !.agent = requestingAgent]
  IN  IF supabase = "client"
      THEN /\ kbCalls' = [kbCalls EXCEPT ![c] = [call EXCEPT !.pc = "search"]]
           /\ UNCHANGED <<extVars, supabase, remoteKB, localKnowledge, knowledgeGraph,
                          accessLog, changeFeed, lastWrite>>
      ELSE QueryFinish(c, call, FALSE, <<>>)

\* The search of the primary has answered.
QuerySearchResponse(c, ok) ==
  /\ kbCalls[c].op = "query" /\ kbCalls[c].pc = "search"
  /\ IF ok
     THEN \E data \in PrimarySearchResults(remoteKB, kbCalls[c].query) :
            QueryFinish(c, [kbCalls[c] EXCEPT !.primary = "ok"], TRUE, data)
     ELSE QueryFinish(c, [kbCalls[c] EXCEPT !.primary = "failed"], FALSE, <<>>)

(***************************************************************************)
(* RealTimeAgentSystem: deployment, delegateTask, the ticker, processTask. *)
(***************************************************************************)
\* `task-${Date.now()}-${random}`: a fresh id per Task object.
TaskId(n) == S_task_prefix \o <<Digits[n + 1]>>

NewTask(n, taskType, parameters, priority) ==
  [id |-> TaskId(n), type |-> taskType, parameters |-> parameters,
   priority |-> priority, status |-> "pending", assignedAgent |-> "",
   result |-> Undefined, error |-> Undefined]

NoCall == [outcome |-> "none"]

\* deployAgentFleet, one turn of its loop: the next agent is constructed,
\* initialized and set in the Map.  After the last one initialize() goes on
\* to startTaskProcessing, which sets the interval of the ticker.
DeployAgent ==
  /\ deployed < Len(fleet)
  /\ deployed' = deployed + 1
  /\ activeAgents' = Append(activeAgents, NewAgent(fleet[deployed + 1]))
  /\ tickerStarted' = (deployed + 1 = Len(fleet))
  /\ UNCHANGED <<fleet, queues, tasks, procPc, delegateResult>>
  /\ UNCHANGED <<kbVars, extVars>>

\* A delegateTask that enqueues the task before it looks for an agent.
delegateTaskEnqueueFirst(taskType, parameters, priority) ==
  LET best == findBestAgent(activeAgents, taskType)
      n == Len(tasks) + 1
      task == [NewTask(n, taskType, parameters, priority) EXCEPT
                 !.assignedAgent = IF best = 0 THEN "" ELSE activeAgents[best].id]
  IN  /\ tasks' = Append(tasks, task)
      /\ procPc' = Append(procPc, "none")
      /\ queues' = enqueue(queues, n, priority)
      /\ delegateResult' = [outcome |-> IF best = 0 THEN "threw" ELSE "returned",
                            type |-> taskType, task |-> IF best = 0 THEN NoTask ELSE n]
      /\ UNCHANGED <<fleet, deployed, activeAgents, tickerStarted>>

\* delegateTask(taskType, parameters, priority): throws when findBestAgent
\* returns null, otherwise binds the agent, enqueues the task and returns
\* the task id.
delegateTask(taskType, parameters, priority) ==
  LET best == findBestAgent(activeAgents, taskType)
      n == Len(tasks) + 1
      task == [NewTask(n, taskType, parameters, priority) EXCEPT
                 !.assignedAgent = activeAgents[best].id]
  IN  IF best = 0
      THEN /\ delegateResult' = [outcome |-> "threw", type |-> taskType,
                                 task |-> NoTask]
           /\ UNCHANGED <<fleet, deployed, activeAgents, tickerStarted, queues,
                          tasks, procPc>>
      ELSE /\ tasks' = Append(tasks, task)
           /\ procPc' = Append(procPc, "none")
           /\ queues' = enqueue(queues, n, priority)
           /\ delegateResult' = [outcome |-> "returned", type |-> taskType,
                                 task |-> n]
           /\ UNCHANGED <<fleet, deployed, activeAgents, tickerStarted>>

DelegateTask(taskType, parameters, priority) ==
  /\ Len(tasks) < MaxTasks
  /\ delegateTask(taskType, parameters, priority)
  /\ UNCHANGED <<kbVars, extVars>>

\* A tick whose processTask does not return when the Map has no agent for
\* task.assignedAgent: the task goes in progress and the call on the missing
\* agent throws into the catch.
TickWithoutAgentCheck ==
  /\ tickerStarted
  /\ hasWork(queues)
  /\ LET got == dequeue(queues)
         t == got.task
         a == AgentIndex(activeAgents, tasks[t].assignedAgent)
     IN  /\ queues' = got.queues
         /\ IF a = 0
            THEN /\ tasks' = [tasks EXCEPT ![t].status = "failed", ![t].error = TypeError]
                 /\ procPc' = [procPc EXCEPT ![t] = "done"]
                 /\ UNCHANGED activeAgents
            ELSE /\ tasks' = [tasks EXCEPT ![t].status = "in-progress"]
                 /\ activeAgents' = [activeAgents EXCEPT ![a].status = "processing"]
                 /\ procPc' = [procPc EXCEPT ![t] = "executing"]
  /\ UNCHANGED <<fleet, deployed, tickerStarted, delegateResult>>
  /\ UNCHANGED <<kbVars, extVars>>

\* A tick that does nothing while a processTask is under way.
TickWaits ==
  /\ tickerStarted
  /\ hasWork(queues)
  /\ \A u \in 1..Len(tasks) : procPc[u] \notin {"executing", "storing"}
  /\ LET got == dequeue(queues)
         t == got.task
         a == AgentIndex(activeAgents, tasks[t].assignedAgent)
     IN  /\ queues' = got.queues
         /\ IF a = 0
            THEN UNCHANGED <<tasks, procPc, activeAgents>>
            ELSE /\ tasks' = [tasks EXCEPT ![t].status = "in-progress"]
                 /\ activeAgents' = [activeAgents EXCEPT ![a].status = "processing"]
                 /\ procPc' = [procPc EXCEPT ![t] = "executing"]
  /\ UNCHANGED <<fleet, deployed, tickerStarted, delegateResult>>
  /\ UNCHANGED <<kbVars, extVars>>

\* One tick of the interval with work in the queue: dequeue a task and run
\* processTask up to its await of the execution timer.  A task whose
\* assignedAgent names no active agent is dropped.
Tick ==
  /\ tickerStarted
  /\ hasWork(queues)
  /\ LET got == dequeue(queues)
         t == got.task
         a == AgentIndex(activeAgents, tasks[t].assignedAgent)
     IN  /\ queues' = got.queues
         /\ IF a = 0
            THEN UNCHANGED <<tasks, procPc, activeAgents>>
            ELSE /\ tasks' = [tasks EXCEPT ![t].status = "in-progress"]
                 /\ activeAgents' = [activeAgents EXCEPT ![a].status = "processing"]
                 /\ procPc' = [procPc EXCEPT ![t] = "executing"]
  /\ UNCHANGED <<fleet, deployed, tickerStarted, delegateResult>>
  /\ UNCHANGED <<kbVars, extVars>>

\* An executeTask that, the handler having returned, leaves the status as
\* it is.
executeTaskSucceededKeepStatus(agent, t) ==
  [agent EXCEPT !.efficiencyScore = updateEfficiency(@, TRUE),
                !.taskHistory = Append(@, t)]

\* executeTask after performTaskExecution, when the handler returned:
\* efficiency up, task pushed on the history, status 'active'.
executeTaskSucceeded(agent, t) ==
  [agent EXCEPT !.efficiencyScore = updateEfficiency(@, TRUE),
                !.taskHistory = Append(@, t),
                !.status = "active"]

\* executeTask when the handler threw: efficiency down, status 'error'.
executeTaskFailed(agent) ==
  [agent EXCEPT !.efficiencyScore = updateEfficiency(@, FALSE),
                !.status = "error"]

\* The execution timer of task t has fired: the handler runs, executeTask
\* returns or throws, and processTask goes on to its next await.
ExecutionDone(t) ==
  /\ procPc[t] = "executing"
  /\ LET a == AgentIndex(activeAgents, tasks[t].assignedAgent)
         agent == activeAgents[a]
         run == performTaskExecution(tasks[t].type, tasks[t].parameters)
     IN  IF run.ok
         THEN /\ activeAgents' = [activeAgents EXCEPT ![a] = executeTaskSucceeded(agent, t)]
              /\ tasks' = [tasks EXCEPT ![t].status = "completed",
                                        ![t].result = run.value]
              /\ StoreKnowledgeCall(TaskCaller(t), S_task_results, tasks[t].id,
                                    run.value, agent.id, TaskResultConfidence)
              /\ procPc' = [procPc EXCEPT ![t] =
                   IF kbCalls'[TaskCaller(t)].pc = "returned" THEN "done"
                   ELSE "storing"]
         ELSE /\ activeAgents' = [activeAgents EXCEPT ![a] = executeTaskFailed(agent)]
              /\ tasks' = [tasks EXCEPT ![t].status = "failed",
                                        ![t].error = run.value]
              /\ procPc' = [procPc EXCEPT ![t] = "done"]
              /\ UNCHANGED <<kbVars, extVars>>
  /\ UNCHANGED <<fleet, deployed, tickerStarted, queues, delegateResult>>

\* processTask of task t awaiting storeKnowledge: an answer of the primary
\* backend arrives for the call; when storeKnowledge returns, processTask
\* ends.
StoreResultStep(t) ==
  /\ procPc[t] = "storing"
  /\ \E ok \in BOOLEAN :
       \/ StoreUpsertResponse(TaskCaller(t), ok)
       \/ LogInsertResponse(TaskCaller(t), ok)
  /\ procPc' = [procPc EXCEPT ![t] =
       IF kbCalls'[TaskCaller(t)].pc = "returned" THEN "done" ELSE @]
  /\ UNCHANGED <<fleet, deployed, activeAgents, tickerStarted, queues, tasks,
                 delegateResult>>

\* A realtime change event reaches the knowledge database.
ChangeEvent ==
  /\ HandleKnowledgeChange
  /\ UNCHANGED dispatchVars

(***************************************************************************)
(* The system from its construction.                                       *)
(***************************************************************************)
\* A fleet of one worker whose only capability is "pattern-recognition".
SingleWorkerFleet ==
  << [id |-> "W1", capabilities |-> <<S_pattern_recognition>>] >>
Fleets == {AgentConfigs, SingleWorkerFleet}

\* The delegateTask calls of the model: task type, parameters, priority.
DelegateInputs ==
  { [type |-> S_generate_adaptive_content, parameters |-> Null, priority |-> "critical"],
    [type |-> S_progress_tracking, parameters |-> EmptyObject, priority |-> "high"],
    [type |-> S_pattern_recognition, parameters |-> EmptyObject, priority |-> "medium"],
    [type |-> S_analyze_behavior_patterns, parameters |-> EmptyObject, priority |-> "medium"],
    [type |-> S_unknown_type, parameters |-> EmptyObject, priority |-> "low"] }

Init ==
  /\ fleet \in Fleets
  /\ deployed = 0
  /\ activeAgents = <<>>
  /\ tickerStarted = FALSE
  /\ queues = EmptyQueues
  /\ tasks = <<>>
  /\ procPc = <<>>
  /\ delegateResult = NoCall
  /\ supabase \in {"client", "null"}
  /\ remoteKB = {}
  /\ localKnowledge = <<>>
  /\ knowledgeGraph = <<>>
  /\ accessLog = <<>>
  /\ changeFeed = <<>>
  /\ kbCalls = [c \in Callers |-> IdleCall]
  /\ lastWrite = NoWrite
  /\ InitExt

Next ==
  \/ DeployAgent
  \/ \E in \in DelegateInputs : DelegateTask(in.type, in.parameters, in.priority)
  \/ Tick
  \/ \E t \in 1..Len(tasks) : ExecutionDone(t)
  \/ \E t \in 1..Len(tasks) : StoreResultStep(t)
  \/ ChangeEvent

Spec == Init /\ [][Next]_vars

(***************************************************************************)
(* The TaskQueue taken alone: any sequence of enqueue and dequeue calls,   *)
(* with tasks of the four priorities and of a priority the queue does not  *)
(* know.                                                                   *)
(***************************************************************************)
QueuePriorities == {"critical", "high", "medium", "low", "urgent"}

QueueEnqueue(priority) ==
  /\ Len(tasks) < MaxQueueTasks
  /\ tasks' = Append(tasks, NewTask(Len(tasks) + 1, S_unknown_type, EmptyObject, priority))
  /\ procPc' = Append(procPc, "none")
  /\ queues' = enqueue(queues, Len(tasks) + 1, priority)
  /\ UNCHANGED <<fleet, deployed, activeAgents, tickerStarted, delegateResult>>
  /\ UNCHANGED <<kbVars, extVars>>

QueueDequeue ==
  /\ hasWork(queues)
  /\ queues' = dequeue(queues).queues
  /\ UNCHANGED <<fleet, deployed, activeAgents, tickerStarted, tasks, procPc,
                 delegateResult>>
  /\ UNCHANGED <<kbVars, extVars>>

InitQueue ==
  /\ Init
  /\ fleet = AgentConfigs
  /\ supabase = "client"

NextQueue ==
  \/ \E priority \in QueuePriorities : QueueEnqueue(priority)
  \/ QueueDequeue

SpecQueue == InitQueue /\ [][NextQueue]_vars

(***************************************************************************)
(* The knowledge store under its callers: MaxClients callers store,        *)
(* retrieve and query while the primary answers or fails call by call and  *)
(* the realtime events arrive.  Not modelled: the copy of the local Map    *)
(* saveToLocalStorage keeps, the rows of the access-log table, the tags of *)
(* an entry, and the seeding of the core knowledge.                        *)
(***************************************************************************)
C_a == <<"a">>
C_a_b == <<"a", ":", "b">>
K_c == <<"c">>
K_b_c == <<"b", ":", "c">>
Q_X == <<"X">>
Q_b == <<"b">>

StoreInputs ==
  {[category |-> C_a, key |-> K_c, value |-> Num(0), confidence |-> DefaultConfidence],
   [category |-> C_a, key |-> K_c, value |-> Str(<<"x">>), confidence |-> TaskResultConfidence],
   [category |-> C_a_b, key |-> K_c, value |-> Str(<<"x">>), confidence |-> DefaultConfidence],
   [category |-> C_a, key |-> K_b_c, value |-> Num(0), confidence |-> TaskResultConfidence]}
RetrieveInputs ==
  {[category |-> C_a, key |-> K_c], [category |-> C_a_b, key |-> K_c],
   [category |-> C_a, key |-> K_b_c]}
QueryInputs == {Q_X, Q_b}

Clients == {ClientCaller(i) : i \in 1..MaxClients}
ClientAgent(c) == IF c[2] = 1 THEN "learning-coordinator" ELSE ""

\* A caller may start a call while the access log of the run is short.
MayCall(c) == CanCall(c) /\ Len(accessLog) < MaxAccesses

ClientStore(c) ==
  /\ MayCall(c)
  /\ \E in \in StoreInputs :
       StoreKnowledgeCall(c, in.category, in.key, in.value, ClientAgent(c), in.confidence)
  /\ UNCHANGED dispatchVars

ClientRetrieve(c) ==
  /\ MayCall(c)
  /\ \E in \in RetrieveInputs :
       RetrieveKnowledgeCall(c, in.category, in.key, ClientAgent(c))
  /\ UNCHANGED dispatchVars

ClientQuery(c) ==
  /\ MayCall(c)
  /\ \E query \in QueryInputs : QueryKnowledgeCall(c, query, ClientAgent(c))
  /\ UNCHANGED dispatchVars

CallResumes(c) ==
  /\ \E ok \in BOOLEAN :
       \/ StoreUpsertResponse(c, ok)
       \/ RetrieveSelectResponse(c, ok)
       \/ RetrieveUpdateResponse(c, ok)
       \/ QuerySearchResponse(c, ok)
       \/ LogInsertResponse(c, ok)
  /\ UNCHANGED dispatchVars

KnowledgeChangeEvent ==
  /\ HandleKnowledgeChange
  /\ UNCHANGED dispatchVars

InitKB ==
  /\ fleet = AgentConfigs
  /\ deployed = 0
  /\ activeAgents = <<>>
  /\ tickerStarted = FALSE
  /\ queues = EmptyQueues
  /\ tasks = <<>>
  /\ procPc = <<>>
  /\ delegateResult = NoCall
  /\ supabase \in {"client", "null"}
  /\ remoteKB = {}
  /\ localKnowledge = <<>>
  /\ knowledgeGraph = <<>>
  /\ accessLog = <<>>
  /\ changeFeed = <<>>
  /\ kbCalls = [c \in Callers |-> IdleCall]
  /\ lastWrite = NoWrite
  /\ InitExt

NextKB ==
  \/ \E c \in Clients : ClientStore(c)
  \/ \E c \in Clients : ClientRetrieve(c)
  \/ \E c \in Clients : ClientQuery(c)
  \/ \E c \in Clients : CallResumes(c)
  \/ KnowledgeChangeEvent

SpecKB == InitKB /\ [][NextKB]_vars

(***************************************************************************)
(* The system later in its life.  The only handler a deployed agent can    *)
(* be given that throws is that of generate-adaptive-content, on the       *)
(* learning coordinator; a failed task is referenced by nothing once       *)
(* processTask has ended.  After k such failures and nothing else the      *)
(* state is the deployed fleet with the learning coordinator's efficiency  *)
(* lowered k times, its status 'error', and no task, knowledge entry or    *)
(* log entry.                                                              *)
(***************************************************************************)
\* Failed executions before the first state of SpecEff (a bound).
MaxPastFailures == 18
PastFailures == {0, MaxPastFailures - 1, MaxPastFailures}

RECURSIVE AfterFailures(_, _)
AfterFailures(agent, k) ==
  IF k = 0 THEN agent ELSE AfterFailures(executeTaskFailed(agent), k - 1)

InitEff ==
  /\ fleet = AgentConfigs
  /\ deployed = Len(fleet)
  /\ \E k \in PastFailures :
       activeAgents = [i \in 1..Len(fleet) |->
                         IF i = 1 THEN AfterFailures(NewAgent(fleet[i]), k)
                         ELSE NewAgent(fleet[i])]
  /\ tickerStarted = TRUE
  /\ queues = EmptyQueues
  /\ tasks = <<>>
  /\ procPc = <<>>
  /\ delegateResult = NoCall
  /\ supabase \in {"client", "null"}
  /\ remoteKB = {}
  /\ localKnowledge = <<>>
  /\ knowledgeGraph = <<>>
  /\ accessLog = <<>>
  /\ changeFeed = <<>>
  /\ kbCalls = [c \in Callers |-> IdleCall]
  /\ lastWrite = NoWrite
  /\ InitExt

\* The whole fleet is deployed: the deployment loop has nothing left to do.
NextEff ==
  \/ \E in \in DelegateInputs : DelegateTask(in.type, in.parameters, in.priority)
  \/ Tick
  \/ \E t \in 1..Len(tasks) : ExecutionDone(t)
  \/ \E t \in 1..Len(tasks) : StoreResultStep(t)
  \/ ChangeEvent

SpecEff == InitEff /\ [][NextEff]_vars

(***************************************************************************)
(* The knowledge store filled beyond the limit of a query: one caller      *)
(* stores entry after entry under fresh keys and queries once.  The        *)
(* primary, where there is one, answers the first MaxPrimaryRows stores at *)
(* most and fails from then on, so that the local Map comes to hold more   *)
(* entries than a query returns.                                           *)
(***************************************************************************)
\* Entries stored in one run (a bound).
MaxEntries == 11
\* Stores the primary may answer in one run (a bound).
MaxPrimaryRows == 1
\* Entries whose confidence the caller chooses; the later ones alternate
\* between the two confidences (a bound).
MaxVaried == 4
\* Queries in one run (a bound).
MaxQueries == 1

Letters == <<"a", "b", "c", "d", "e", "f", "g", "h", "i", "j", "k", "l", "m", "n">>
TopKey(i) == <<"k", Letters[i]>>
TopValue(i) == IF i % 2 = 1 THEN Str(<<"x">>) ELSE Num(0)
TopConfidences(i) ==
  IF i <= MaxVaried THEN {TaskResultConfidence, DefaultConfidence}
  ELSE IF i % 2 = 0 THEN {DefaultConfidence} ELSE {TaskResultConfidence}
Q_k == <<"K">>
TopQueryInputs == {Q_k, Q_X}
Filler == ClientCaller(1)

LoggedAs(accessType) ==
  Len(SelectSeq(accessLog, LAMBDA e : e.access_type = accessType))

FillerStore ==
  /\ CanCall(Filler)
  /\ LoggedAs("store") < MaxEntries
  /\ \E confidence \in TopConfidences(LoggedAs("store") + 1) :
       StoreKnowledgeCall(Filler, C_a, TopKey(LoggedAs("store") + 1),
                          TopValue(LoggedAs("store") + 1),
                          ClientAgent(Filler), confidence)
  /\ UNCHANGED dispatchVars

FillerQuery ==
  /\ CanCall(Filler)
  /\ LoggedAs("query") < MaxQueries
  /\ \E query \in TopQueryInputs : QueryKnowledgeCall(Filler, query, ClientAgent(Filler))
  /\ UNCHANGED dispatchVars

FillerResumes ==
  /\ \E ok \in BOOLEAN :
       \/ /\ ok => LoggedAs("store") < MaxPrimaryRows
          /\ StoreUpsertResponse(Filler, ok)
       \/ QuerySearchResponse(Filler, ok)
       \/ LogInsertResponse(Filler, ok)
  /\ UNCHANGED dispatchVars

NextTop ==
  \/ FillerStore
  \/ FillerQuery
  \/ FillerResumes
  \/ KnowledgeChangeEvent

SpecTop == InitKB /\ [][NextTop]_vars

(***************************************************************************)
(* The system with the SQLite-backed knowledge database, whose             *)
(* storeKnowledge hands the entry to SQLiteDatabase.storeKnowledge and     *)
(* whose logKnowledgeAccess hands the log entry to                         *)
(* SQLiteDatabase.logActivity, neither inside a try.  A statement of the   *)
(* database may throw (db.exec), and so may the copy to localStorage that  *)
(* follows it (localStorage.setItem), after the statement has taken        *)
(* effect.  The rows seedInitialData inserts are not modelled.             *)
(***************************************************************************)
SqliteOutcomes == {"ok", "exec-throws", "save-throws"}
SqliteError == [t |-> "error", name |-> "Error"]

\* INSERT OR REPLACE INTO knowledge_base: the rows in conflict on id or on
\* (category, key) go, and the new row comes with the value as JSON text.
sqliteStoreKnowledge(db, category, key, value, sourceAgent, confidence) ==
  LET id == KnowledgeId(category, key)
      row == [id |-> id, category |-> category, key |-> key,
              value |-> JsonStringify(value), confidence_score |-> confidence,
              source_agent |-> IF sourceAgent = "" THEN "system" ELSE sourceAgent,
              access_count |-> 0]
      kept == {r \in db.knowledge_base :
                 r.id # id /\ ~(r.category = category /\ r.key = key)}
  IN  [db EXCEPT !.knowledge_base = kept \cup {row}]

\* INSERT INTO activity_logs
sqliteLogActivity(db, agentId, activity, details) ==
  [db EXCEPT !.activity_logs =
     Append(@, [agent_id |-> agentId, activity |-> activity, details |-> details])]

\* The catch of processTask.
processTaskCatch(t, error) ==
  /\ tasks' = [tasks EXCEPT ![t].status = "failed", ![t].error = error]
  /\ procPc' = [procPc EXCEPT ![t] = "done"]

\* The execution timer of task t has fired, as in ExecutionDone, the
\* storeKnowledge called being that of the SQLite-backed database: it
\* awaits SQLiteDatabase.storeKnowledge.
ExecutionDoneLite(t) ==
  /\ procPc[t] = "executing"
  /\ LET a == AgentIndex(activeAgents, tasks[t].assignedAgent)
         agent == activeAgents[a]
         run == performTaskExecution(tasks[t].type, tasks[t].parameters)
     IN  IF run.ok
         THEN /\ activeAgents' = [activeAgents EXCEPT ![a] = executeTaskSucceeded(agent, t)]
              /\ tasks' = [tasks EXCEPT ![t].status = "completed",
                                        ![t].result = run.value]
              /\ kbCalls' = [kbCalls EXCEPT ![TaskCaller(t)] =
                   [IdleCall EXCEPT
                      !.op = "store", !.pc = "sqlite-store",
                      !.category = S_task_results, !.key = tasks[t].id,
                      !.agent = agent.id,
                      !.knowledge = [value |-> run.value,
                                     confidence_score |-> TaskResultConfidence]]]
              /\ procPc' = [procPc EXCEPT ![t] = "storing"]
         ELSE /\ activeAgents' = [activeAgents EXCEPT ![a] = executeTaskFailed(agent)]
              /\ processTaskCatch(t, run.value)
              /\ UNCHANGED kbCalls
  /\ UNCHANGED <<fleet, deployed, tickerStarted, queues, delegateResult>>
  /\ UNCHANGED <<supabase, remoteKB, localKnowledge, knowledgeGraph, accessLog,
                 changeFeed, lastWrite, extVars>>

\* SQLiteDatabase.storeKnowledge has run for the storeKnowledge processTask
\* awaits.  When it returned, logKnowledgeAccess pushes its entry and
\* awaits SQLiteDatabase.logActivity; when it threw, storeKnowledge throws
\* and processTask catches.
SqliteStoreAnswers(t, outcome) ==
  LET c == TaskCaller(t)
      call == kbCalls[c]
      written == sqliteStoreKnowledge(sqliteDb, call.category, call.key,
                                      call.knowledge.value, call.agent,
                                      call.knowledge.confidence_score)
  IN  /\ procPc[t] = "storing" /\ call.pc = "sqlite-store"
      /\ sqliteDb' = IF outcome = "exec-throws" THEN sqliteDb ELSE written
      /\ IF outcome = "ok"
         THEN /\ accessLog' =
                   PushAccessLog(accessLog,
                     LogEntry(call.agent, KnowledgeId(call.category, call.key), "store",
                              [confidence |-> call.knowledge.confidence_score]))
              /\ kbCalls' = [kbCalls EXCEPT ![c].pc = "sqlite-log",
                                            ![c].ret = Str(KnowledgeId(call.category, call.key))]
              /\ UNCHANGED <<tasks, procPc>>
         ELSE /\ kbCalls' = [kbCalls EXCEPT ![c].pc = "threw"]
              /\ processTaskCatch(t, SqliteError)
              /\ UNCHANGED accessLog
      /\ UNCHANGED <<fleet, deployed, activeAgents, tickerStarted, queues,
                     delegateResult, supabase, remoteKB, localKnowledge,
                     knowledgeGraph, changeFeed, lastWrite, workflowRuns, ecosystem>>

\* SQLiteDatabase.logActivity has run for the logKnowledgeAccess that
\* storeKnowledge awaits: storeKnowledge returns and processTask ends, or
\* the exception passes through both into the catch of processTask.
SqliteLogAnswers(t, outcome) ==
  LET c == TaskCaller(t)
      call == kbCalls[c]
      logged == sqliteLogActivity(sqliteDb, call.agent, "knowledge_store",
                  [knowledge_key |-> KnowledgeId(call.category, call.key),
                   context |-> [confidence |-> call.knowledge.confidence_score]])
  IN  /\ procPc[t] = "storing" /\ call.pc = "sqlite-log"
      /\ sqliteDb' = IF outcome = "exec-throws" THEN sqliteDb ELSE logged
      /\ IF outcome = "ok"
         THEN /\ kbCalls' = [kbCalls EXCEPT ![c].pc = "returned"]
              /\ procPc' = [procPc EXCEPT ![t] = "done"]
              /\ UNCHANGED tasks
         ELSE /\ kbCalls' = [kbCalls EXCEPT ![c].pc = "threw"]
              /\ processTaskCatch(t, SqliteError)
      /\ UNCHANGED <<fleet, deployed, activeAgents, tickerStarted, queues,
                     delegateResult, supabase, remoteKB, localKnowledge,
                     knowledgeGraph, accessLog, changeFeed, lastWrite,
                     workflowRuns, ecosystem>>

InitLite ==
  /\ Init
  /\ fleet = AgentConfigs
  /\ supabase = "null"

NextLite ==
  \/ DeployAgent
  \/ \E in \in DelegateInputs : DelegateTask(in.type, in.parameters, in.priority)
  \/ Tick
  \/ \E t \in 1..Len(tasks) : ExecutionDoneLite(t)
  \/ \E t \in 1..Len(tasks), outcome \in SqliteOutcomes : SqliteStoreAnswers(t, outcome)
  \/ \E t \in 1..Len(tasks), outcome \in SqliteOutcomes : SqliteLogAnswers(t, outcome)

SpecLite == InitLite /\ [][NextLite]_vars

(***************************************************************************)
(* WorkflowEngine.                                                         *)
(***************************************************************************)
S_assess_baseline == <<"a", "s", "s", "e", "s", "s", "-", "b", "a", "s", "e", "l", "i", "n", "e">>
S_create_profile == <<"c", "r", "e", "a", "t", "e", "-", "p", "r", "o", "f", "i", "l", "e">>
S_generate_initial_content == <<"g", "e", "n", "e", "r", "a", "t", "e", "-", "i", "n", "i", "t", "i", "a", "l", "-", "c", "o", "n", "t", "e", "n", "t">>
S_monitor_engagement == <<"m", "o", "n", "i", "t", "o", "r", "-", "e", "n", "g", "a", "g", "e", "m", "e", "n", "t">>
S_adjust_difficulty == <<"a", "d", "j", "u", "s", "t", "-", "d", "i", "f", "f", "i", "c", "u", "l", "t", "y">>
S_provide_feedback == <<"p", "r", "o", "v", "i", "d", "e", "-", "f", "e", "e", "d", "b", "a", "c", "k">>
S_workflow_prefix == <<"w", "o", "r", "k", "f", "l", "o", "w", "-">>

MaxRuns == 2

\* setupWorkflows: the two workflows the engine declares.
setupWorkflows ==
  { [name |-> "student-onboarding",
     steps |-> <<S_assess_baseline, S_create_profile, S_generate_initial_content>>,
     dependencies |-> {[step |-> S_create_profile, requires |-> <<S_assess_baseline>>]}],
    [name |-> "adaptive-learning-session",
     steps |-> <<S_monitor_engagement, S_adjust_difficulty, S_provide_feedback>>,
     dependencies |-> {[step |-> S_adjust_difficulty, requires |-> <<S_monitor_engagement>>]}] }

\* Two workflows of two steps named after capabilities of the fleet, the
\* second step requiring the first, declared in the one order and in the
\* other.
StepA == S_assessment
StepB == S_reporting
GatingWorkflows ==
  { [name |-> "a-then-b", steps |-> <<StepA, StepB>>,
     dependencies |-> {[step |-> StepB, requires |-> <<StepA>>]}],
    [name |-> "b-then-a", steps |-> <<StepB, StepA>>,
     dependencies |-> {[step |-> StepB, requires |-> <<StepA>>]}] }

\* The Map this.workflows of an initialized engine.
workflows == setupWorkflows \cup GatingWorkflows
WorkflowNames == {w.name : w \in workflows} \cup {"no-such-workflow"}

\* workflow.dependencies[step] || []
dependenciesOf(workflow, step) ==
  IF \E d \in workflow.dependencies : d.step = step
  THEN (CHOOSE d \in workflow.dependencies : d.step = step).requires
  ELSE <<>>

\* results[step], as a truth value: the object has the property when the
\* step was delegated.
HasResult(results, step) == \E i \in 1..Len(results) : results[i].step = step

\* A gate that lets every step pass.
canExecuteUngated(workflow, step, results) == TRUE

\* deps.every(dep => results[dep])
canExecute(workflow, step, results) ==
  LET deps == dependenciesOf(workflow, step)
  IN  \A i \in 1..Len(deps) : HasResult(results, deps[i])

\* `workflow-${step}-${Date.now()}`
Decimal(n) ==
  IF n < 10 THEN <<Digits[n + 1]>>
  ELSE <<Digits[(n \div 10) + 1], Digits[(n % 10) + 1]>>
WorkflowTaskId(step, n) == S_workflow_prefix \o step \o <<"-">> \o Decimal(n)
IsWorkflowTask(task) ==
  /\ Len(task.id) > Len(S_workflow_prefix)
  /\ SubSeq(task.id, 1, Len(S_workflow_prefix)) = S_workflow_prefix

\* new Task({id, type: step, parameters, priority: 'medium', status: 'pending'})
NewWorkflowTask(n, step, parameters) ==
  [id |-> WorkflowTaskId(step, n), type |-> step, parameters |-> parameters,
   priority |-> "medium", status |-> "pending", assignedAgent |-> "",
   result |-> Undefined, error |-> Undefined]

\* The first position from `from` on whose step passes the gate, or one
\* past the last step.
NextExecutable(workflow, from, results) ==
  LET passing == {p \in from..Len(workflow.steps) :
                    canExecute(workflow, workflow.steps[p], results)}
  IN  IF passing = {} THEN Len(workflow.steps) + 1
      ELSE CHOOSE p \in passing : \A q \in passing : p <= q

NewRun(workflow, parameters) ==
  [workflow |-> workflow, parameters |-> parameters, pos |-> 0, task |-> NoTask,
   results |-> <<>>, outcome |-> "running"]
ThrownRun(name) ==
  [workflow |-> [name |-> name, steps |-> <<>>, dependencies |-> {}],
   parameters |-> Undefined, pos |-> 0, task |-> NoTask, results |-> <<>>,
   outcome |-> "threw"]

\* The loop of executeWorkflow from position `from` to its next await or to
\* its return: the steps that do not pass the gate are passed over, the
\* first that passes is made a Task by delegateWorkflowTask and enqueued,
\* and the run awaits; after the last step the run returns results.
executeWorkflowLoop(r, run, from) ==
  LET p == NextExecutable(run.workflow, from, run.results)
      n == Len(tasks) + 1
  IN  IF p > Len(run.workflow.steps)
      THEN /\ workflowRuns' =
                [[i \in 1..Max(r, Len(workflowRuns)) |->
                    IF i = r THEN run ELSE workflowRuns[i]]
                 EXCEPT ![r].pos = p, ![r].task = NoTask, ![r].outcome = "returned"]
           /\ UNCHANGED <<tasks, procPc, queues>>
      ELSE /\ workflowRuns' =
                [[i \in 1..Max(r, Len(workflowRuns)) |->
                    IF i = r THEN run ELSE workflowRuns[i]]
                 EXCEPT ![r].pos = p, ![r].task = n, ![r].outcome = "awaiting"]
           /\ tasks' = Append(tasks, NewWorkflowTask(n, run.workflow.steps[p], run.parameters))
           /\ procPc' = Append(procPc, "none")
           /\ queues' = enqueue(queues, n, "medium")

\* executeWorkflow(workflowName, parameters) to its first await: throws when
\* the Map holds no such workflow (it holds none before
\* WorkflowEngine.initialize, which initialize() calls after
\* startTaskProcessing).
ExecuteWorkflow(workflowName, parameters) ==
  /\ Len(workflowRuns) < MaxRuns
  /\ LET r == Len(workflowRuns) + 1
     IN  IF tickerStarted /\ \E w \in workflows : w.name = workflowName
         THEN executeWorkflowLoop(
                r, NewRun(CHOOSE w \in workflows : w.name = workflowName, parameters), 1)
         ELSE /\ workflowRuns' = Append(workflowRuns, ThrownRun(workflowName))
              /\ UNCHANGED <<tasks, procPc, queues>>
  /\ UNCHANGED <<fleet, deployed, activeAgents, tickerStarted, delegateResult,
                 kbVars, sqliteDb, ecosystem>>

\* The await of delegateWorkflowTask of run r resumes: results[step] is set
\* and the loop goes on.
WorkflowResumes(r) ==
  /\ workflowRuns[r].outcome = "awaiting"
  /\ LET run == workflowRuns[r]
         step == run.workflow.steps[run.pos]
         entry == [step |-> step, taskId |-> tasks[run.task].id, task |-> run.task,
                   status |-> "delegated"]
     IN  executeWorkflowLoop(r, [run EXCEPT !.results = Append(@, entry)], run.pos + 1)
  /\ UNCHANGED <<fleet, deployed, activeAgents, tickerStarted, delegateResult,
                 kbVars, sqliteDb, ecosystem>>

InitFlow == InitLite

NextFlow ==
  \/ DeployAgent
  \/ Tick
  \/ \E name \in WorkflowNames : ExecuteWorkflow(name, EmptyObject)
  \/ \E r \in 1..Len(workflowRuns) : WorkflowResumes(r)

SpecFlow == InitFlow /\ [][NextFlow]_vars

(***************************************************************************)
(* StealthAgentEcosystem.registerAgent, in its three definitions: the      *)
(* SQLite-backed one ("sqlite"), and the two of the Supabase-backed class, *)
(* the one that inserts and falls back to localAgentRegistry ("insert")    *)
(* and the one that upserts ("upsert").  A behaviour has one of them.      *)
(* Registrations follow one another, as in deployStealthAgents, which      *)
(* awaits each.                                                            *)
(***************************************************************************)
MaxRegistrations == 2

RegisterVersions == {"sqlite", "insert", "upsert"}
WorkerIds == {"w1", "w2"}
AgentSpecs ==
  {[id |-> w, capabilities |-> c, status |-> "active"] :
     w \in WorkerIds, c \in {<<S_assessment>>, <<S_reporting>>}}
\* `local_agent_${Date.now()}`, one per invocation
FallbackIds == <<"local_agent_1", "local_agent_2", "local_agent_3", "local_agent_4">>
RegistrationOutcomes == SqliteOutcomes \cup {"error"}

\* INSERT OR REPLACE INTO agents: the row of the same id is replaced.
createAgent(db, agentData) ==
  [db EXCEPT !.agents =
     {r \in @ : r.id # agentData.id}
       \cup {[id |-> agentData.id, status |-> agentData.status,
              config |-> agentData.config]}]

\* registrationData of the SQLite-backed definition
SqliteRegistrationData(agentSpec) ==
  [id |-> agentSpec.id, status |-> "initializing",
   config |-> [capabilities |-> agentSpec.capabilities]]
\* registrationData of the inserting definition
RegistrationData(agentSpec) ==
  [agent_id |-> agentSpec.id, capabilities |-> agentSpec.capabilities,
   status |-> "initializing"]
\* the row the upserting definition sends
UpsertRow(agentConfig) ==
  [agent_id |-> agentConfig.id, capabilities |-> agentConfig.capabilities,
   status |-> agentConfig.status]
\* the entry the catch of the inserting definition sets
FallbackEntry(fallbackId, agentSpec) ==
  [agent_id |-> fallbackId, capabilities |-> agentSpec.capabilities,
   status |-> "local_mode"]

\* this.localAgentRegistry.set(key, value)
localAgentRegistrySet(eco, key, value) ==
  [eco EXCEPT !.localAgentRegistry = MapSet(@, key, [id |-> key, value |-> value])]
\* upsert(row, {onConflict: 'agent_id'})
UpsertAgent(rows, row) == {r \in rows : r.agent_id # row.agent_id} \cup {row}

RegistrationEnded(call) == call.pc \in {"returned", "threw"}
NewRegistration(agentSpec, pc, ret) == [agentSpec |-> agentSpec, pc |-> pc, ret |-> ret]
EndRegistration(eco, pc, ret) ==
  [eco EXCEPT !.calls[Len(eco.calls)].pc = pc, !.calls[Len(eco.calls)].ret = ret]

\* registerAgent(agentSpec) to its first await.  "sqlite": awaits
\* sqliteDB.createAgent.  "insert": awaits the insert, or without a client
\* sets the entry in localAgentRegistry and awaits logActivity.  "upsert":
\* awaits the upsert, or without a client returns at once (demo mode).
RegisterAgent(agentSpec) ==
  /\ Len(ecosystem.calls) < MaxRegistrations
  /\ \A i \in 1..Len(ecosystem.calls) : RegistrationEnded(ecosystem.calls[i])
  /\ ecosystem' =
       CASE ecosystem.version = "sqlite" ->
              [ecosystem EXCEPT !.calls = Append(@, NewRegistration(agentSpec, "store", ""))]
         [] ecosystem.version = "insert" ->
              IF supabase = "client"
              THEN [ecosystem EXCEPT !.calls = Append(@, NewRegistration(agentSpec, "store", ""))]
              ELSE [localAgentRegistrySet(ecosystem, agentSpec.id, RegistrationData(agentSpec))
                      EXCEPT !.calls = Append(@, NewRegistration(agentSpec, "log", ""))]
         [] ecosystem.version = "upsert" ->
              IF supabase = "client"
              THEN [ecosystem EXCEPT !.calls = Append(@, NewRegistration(agentSpec, "store", ""))]
              ELSE [ecosystem EXCEPT
                      !.calls = Append(@, NewRegistration(agentSpec, "returned", agentSpec.id))]
  /\ UNCHANGED <<dispatchVars, kbVars, sqliteDb, workflowRuns>>

\* The store the registration awaits has answered.  "sqlite": createAgent
\* returned, or threw before or after the row was written, and the catch
\* throws again.  "insert": the insert gave data (no row has the agent_id,
\* the primary key) or an error, and on an error the entry goes to
\* localAgentRegistry.  "upsert": the upsert gave data or an error, and the
\* error is thrown.
RegistrationStoreAnswers(outcome) ==
  LET n == Len(ecosystem.calls)
      agentSpec == ecosystem.calls[n].agentSpec
  IN  /\ n > 0
      /\ ecosystem.calls[n].pc = "store"
      /\ CASE ecosystem.version = "sqlite" ->
                /\ outcome \in SqliteOutcomes
                /\ sqliteDb' = IF outcome = "exec-throws" THEN sqliteDb
                               ELSE createAgent(sqliteDb, SqliteRegistrationData(agentSpec))
                /\ ecosystem' = IF outcome = "ok" THEN EndRegistration(ecosystem, "log", "")
                                ELSE EndRegistration(ecosystem, "threw", "")
           [] ecosystem.version = "insert" ->
                /\ outcome \in {"ok", "error"}
                /\ outcome = "ok" =>
                     \A r \in ecosystem.stealth_agent_registry : r.agent_id # agentSpec.id
                /\ ecosystem' =
                     IF outcome = "ok"
                     THEN [EndRegistration(ecosystem, "log", "") EXCEPT
                             !.stealth_agent_registry = @ \cup {RegistrationData(agentSpec)}]
                     ELSE localAgentRegistrySet(EndRegistration(ecosystem, "log", ""),
                                                agentSpec.id, RegistrationData(agentSpec))
                /\ UNCHANGED sqliteDb
           [] ecosystem.version = "upsert" ->
                /\ outcome \in {"ok", "error"}
                /\ ecosystem' =
                     IF outcome = "ok"
                     THEN [EndRegistration(ecosystem, "log", "") EXCEPT
                             !.stealth_agent_registry = UpsertAgent(@, UpsertRow(agentSpec))]
                     ELSE EndRegistration(ecosystem, "threw", "")
                /\ UNCHANGED sqliteDb
      /\ UNCHANGED <<dispatchVars, kbVars, workflowRuns>>

\* The logging the registration awaits has ended.  "sqlite":
\* sqliteDB.logActivity returned, or threw and the catch throws again.
\* "insert": logActivity returned, or threw and the catch sets an entry
\* under a fallback id and returns that id.  "upsert": logAgentActivity
\* catches its own failure, and the registration returns.
RegistrationLogAnswers(outcome) ==
  LET n == Len(ecosystem.calls)
      agentSpec == ecosystem.calls[n].agentSpec
  IN  /\ n > 0
      /\ ecosystem.calls[n].pc = "log"
      /\ CASE ecosystem.version = "sqlite" ->
                /\ outcome \in SqliteOutcomes
                /\ sqliteDb' = IF outcome = "exec-throws" THEN sqliteDb
                               ELSE sqliteLogActivity(sqliteDb, agentSpec.id, "agent_registered",
                                                      [agent_spec |-> agentSpec])
                /\ ecosystem' = IF outcome = "ok"
                                THEN EndRegistration(ecosystem, "returned", agentSpec.id)
                                ELSE EndRegistration(ecosystem, "threw", "")
           [] ecosystem.version = "insert" ->
                /\ outcome \in {"ok", "error"}
                /\ ecosystem' =
                     IF outcome = "ok"
                     THEN EndRegistration(ecosystem, "returned", agentSpec.id)
                     ELSE localAgentRegistrySet(
                            EndRegistration(ecosystem, "returned", FallbackIds[n]),
                            FallbackIds[n], FallbackEntry(FallbackIds[n], agentSpec))
                /\ UNCHANGED sqliteDb
           [] ecosystem.version = "upsert" ->
                /\ outcome \in {"ok", "error"}
                /\ ecosystem' = EndRegistration(ecosystem, "returned", "null")
                /\ UNCHANGED sqliteDb
      /\ UNCHANGED <<dispatchVars, kbVars, workflowRuns>>

InitReg ==
  /\ fleet = AgentConfigs
  /\ deployed = 0
  /\ activeAgents = <<>>
  /\ tickerStarted = FALSE
  /\ queues = EmptyQueues
  /\ tasks = <<>>
  /\ procPc = <<>>
  /\ delegateResult = NoCall
  /\ supabase \in {"client", "null"}
  /\ remoteKB = {}
  /\ localKnowledge = <<>>
  /\ knowledgeGraph = <<>>
  /\ accessLog = <<>>
  /\ changeFeed = <<>>
  /\ kbCalls = [c \in Callers |-> IdleCall]
  /\ lastWrite = NoWrite
  /\ sqliteDb = EmptySqliteDb
  /\ workflowRuns = <<>>
  /\ ecosystem \in {EmptyEcosystem(v) : v \in RegisterVersions}

NextReg ==
  \/ \E agentSpec \in AgentSpecs : RegisterAgent(agentSpec)
  \/ \E outcome \in RegistrationOutcomes : RegistrationStoreAnswers(outcome)
  \/ \E outcome \in RegistrationOutcomes : RegistrationLogAnswers(outcome)

SpecReg == InitReg /\ [][NextReg]_vars

(***************************************************************************)
(* The system with both sources of tasks: delegateTask and one run of the  *)
(* workflow engine.                                                        *)
(***************************************************************************)
InitAll == InitLite

NextAll ==
  \/ DeployAgent
  \/ DelegateTask(S_generate_adaptive_content, Null, "critical")
  \/ DelegateTask(S_progress_tracking, EmptyObject, "high")
  \/ Tick
  \/ \E t \in 1..Len(tasks) : ExecutionDone(t)
  \/ \E t \in 1..Len(tasks) : StoreResultStep(t)
  \/ workflowRuns = <<>> /\ ExecuteWorkflow("student-onboarding", EmptyObject)
  \/ \E r \in 1..Len(workflowRuns) : WorkflowResumes(r)

SpecAll == InitAll /\ [][NextAll]_vars

(***************************************************************************)
(* The same system with its scheduling: initialize() runs to its end, the  *)
(* interval of startTaskProcessing keeps firing, every timer of            *)
(* performTaskExecution fires, every awaited call of the knowledge store   *)
(* answers and every awaited delegateWorkflowTask resumes.  delegateTask   *)
(* and executeWorkflow are calls of the environment and need not happen.   *)
(***************************************************************************)
FairAll ==
  /\ WF_vars(DeployAgent)
  /\ WF_vars(Tick)
  /\ WF_vars(\E t \in 1..Len(tasks) : ExecutionDone(t))
  /\ WF_vars(\E t \in 1..Len(tasks) : StoreResultStep(t))
  /\ WF_vars(\E r \in 1..Len(workflowRuns) : WorkflowResumes(r))

SpecAllFair == SpecAll /\ FairAll

(***************************************************************************)
(* The deployed system with tasks that only the learning coordinator can   *)
(* handle, one whose handler throws and one whose handler returns, the     *)
(* coordinator having failed executions behind it or none.                 *)
(***************************************************************************)
HealInputs ==
  { [type |-> S_generate_adaptive_content, parameters |-> Null, priority |-> "critical"],
    [type |-> S_adaptive_content, parameters |-> EmptyObject, priority |-> "medium"] }

NextHeal ==
  \/ \E in \in HealInputs : DelegateTask(in.type, in.parameters, in.priority)
  \/ Tick
  \/ \E t \in 1..Len(tasks) : ExecutionDone(t)
  \/ \E t \in 1..Len(tasks) : StoreResultStep(t)

SpecHeal == InitEff /\ [][NextHeal]_vars

(***************************************************************************)
(* The knowledge store late in a run, the access log empty, one short of   *)
(* its cap, or at its cap: one caller stores and retrieves.  The entries   *)
(* logged before the first state are those of another agent, stores and    *)
(* retrieves in turn.                                                      *)
(***************************************************************************)
PastLogger == "behavior-analyst"
PastEntry(i) ==
  LogEntry(PastLogger, KnowledgeId(C_a, K_c),
           IF i % 2 = 1 THEN "store" ELSE "retrieve",
           [confidence |-> IF i % 3 = 0 THEN TaskResultConfidence ELSE DefaultConfidence])
PastLog(n) == [i \in 1..n |-> PastEntry(i)]
PastLogLengths == {0, AccessLogCap - 1, AccessLogCap}

\* The entries the caller of the run has had logged.
NewlyLogged == Len(SelectSeq(accessLog, LAMBDA e : e.agent_id # PastLogger))

LogStore ==
  /\ CanCall(Filler)
  /\ NewlyLogged < MaxAccesses
  /\ \E in \in StoreInputs :
       StoreKnowledgeCall(Filler, in.category, in.key, in.value, ClientAgent(Filler),
                          in.confidence)
  /\ UNCHANGED dispatchVars

LogRetrieve ==
  /\ CanCall(Filler)
  /\ NewlyLogged < MaxAccesses
  /\ \E in \in RetrieveInputs :
       RetrieveKnowledgeCall(Filler, in.category, in.key, ClientAgent(Filler))
  /\ UNCHANGED dispatchVars

\* The call of the caller resumes from its await (no query is in progress).
LogResumes ==
  /\ \E ok \in BOOLEAN :
       \/ StoreUpsertResponse(Filler, ok)
       \/ RetrieveSelectResponse(Filler, ok)
       \/ RetrieveUpdateResponse(Filler, ok)
       \/ LogInsertResponse(Filler, ok)
  /\ UNCHANGED dispatchVars

InitLog ==
  /\ fleet = AgentConfigs
  /\ deployed = 0
  /\ activeAgents = <<>>
  /\ tickerStarted = FALSE
  /\ queues = EmptyQueues
  /\ tasks = <<>>
  /\ procPc = <<>>
  /\ delegateResult = NoCall
  /\ supabase \in {"client", "null"}
  /\ remoteKB = {}
  /\ localKnowledge = <<>>
  /\ knowledgeGraph = <<>>
  /\ accessLog \in {PastLog(n) : n \in PastLogLengths}
  /\ changeFeed = <<>>
  /\ kbCalls = [c \in Callers |-> IdleCall]
  /\ lastWrite = NoWrite
  /\ InitExt

NextLog ==
  \/ LogStore
  \/ LogRetrieve
  \/ LogResumes
  \/ KnowledgeChangeEvent

SpecLog == InitLog /\ [][NextLog]_vars

(***************************************************************************)
(* The knowledge store across outages of the primary: one caller stores    *)
(* and retrieves one (category, key), one call after the other, while the  *)
(* primary answers or fails call by call.  The values stored are truthy.   *)
(***************************************************************************)
\* Accesses logged in one run (a bound).
MaxOutageAccesses == 3
OutageValues == {Str(<<"x">>), Str(<<"y">>)}

OutageStore ==
  /\ CanCall(Filler)
  /\ Len(accessLog) < MaxOutageAccesses
  /\ \E value \in OutageValues :
       StoreKnowledgeCall(Filler, C_a, K_c, value, ClientAgent(Filler),
                          TaskResultConfidence)
  /\ UNCHANGED dispatchVars

OutageRetrieve ==
  /\ CanCall(Filler)
  /\ Len(accessLog) < MaxOutageAccesses
  /\ RetrieveKnowledgeCall(Filler, C_a, K_c, ClientAgent(Filler))
  /\ UNCHANGED dispatchVars

NextOutage ==
  \/ OutageStore
  \/ OutageRetrieve
  \/ LogResumes
  \/ KnowledgeChangeEvent

SpecOutage == InitKB /\ [][NextOutage]_vars

(***************************************************************************)
(* Properties.                                                             *)
(***************************************************************************)
\* Position of a priority in the lane order critical, high, medium, low; a
\* priority that names no lane counts as medium, the lane its tasks are in.
LaneRank(priority) ==
  CASE priority = "critical" -> 1
    [] priority = "high" -> 2
    [] priority = "low" -> 4
    [] OTHER -> 3

\* The Task objects a step takes out of the queue.
Dequeued == Queued(queues) \ Queued(queues')

\* C1: every dequeue returns and removes exactly one task, the
\* earliest-enqueued task of the highest-priority non-empty lane: no task
\* still queued is of a higher-priority lane than the task returned, and none
\* of the same lane was enqueued before it (tasks are numbered in the order
\* of their enqueue).
C1_DequeuePriorityFifo ==
  [][Queued(queues') # Queued(queues) /\ tasks' = tasks =>
       /\ Cardinality(Dequeued) = 1
       /\ Queued(queues') \subseteq Queued(queues)
       /\ \A t \in Dequeued :
            \A u \in Queued(queues) \ {t} :
              \/ LaneRank(tasks[t].priority) < LaneRank(tasks[u].priority)
              \/ /\ LaneRank(tasks[t].priority) = LaneRank(tasks[u].priority)
                 /\ t < u]_vars

\* C1 witness: a critical task enqueued after a low task has been dequeued
\* while the low task is still queued, and of two tasks of one lane the
\* first has been dequeued and the second is still queued.
C1_Witness ==
  /\ \E t, u \in 1..Len(tasks) :
       /\ t < u
       /\ tasks[t].priority = "low" /\ t \in Queued(queues)
       /\ tasks[u].priority = "critical" /\ u \notin Queued(queues)
  /\ \E a, b \in 1..Len(tasks) :
       /\ a < b
       /\ tasks[a].priority = "urgent" /\ tasks[b].priority = "medium"
       /\ a \notin Queued(queues) /\ b \in Queued(queues)

\* The matching the claims speak of: a capability that is a substring of the
\* task type or that contains the task type.
SubstringEitherWay(capability, taskType) ==
  Includes(taskType, capability) \/ Includes(capability, taskType)
MatchingAgents(agents, taskType) ==
  {i \in 1..Len(agents) :
     \E k \in 1..Len(agents[i].capabilities) :
       SubstringEitherWay(agents[i].capabilities[k], taskType)}

\* A step in which delegateTask has created a task.
TaskDelegated == Len(tasks') = Len(tasks) + 1

\* C2: the task delegateTask creates is bound to a registered worker with a
\* matching capability whose efficiency no other matching worker exceeds,
\* and which was registered before every matching worker of the same
\* efficiency.
C2_BestAgentBound ==
  [][TaskDelegated =>
       LET task == tasks'[Len(tasks')]
           a == AgentIndex(activeAgents, task.assignedAgent)
           matching == MatchingAgents(activeAgents, task.type)
       IN  /\ a \in matching
           /\ \A j \in matching :
                /\ activeAgents[j].efficiencyScore <= activeAgents[a].efficiencyScore
                /\ activeAgents[j].efficiencyScore = activeAgents[a].efficiencyScore
                     => a <= j]_vars

\* C2 witness: the latest progress-tracking task is bound to the progress
\* monitor, registered after the learning coordinator, whose efficiency is
\* the lower one.
C2_Witness ==
  /\ delegateResult.outcome = "returned"
  /\ tasks[delegateResult.task].type = S_progress_tracking
  /\ tasks[delegateResult.task].assignedAgent = "progress-monitor"
  /\ procPc[delegateResult.task] = "none"
  /\ activeAgents[1].id = "learning-coordinator"
  /\ activeAgents[1].efficiencyScore < activeAgents[4].efficiencyScore

\* A step in which delegateTask has been called with a task type that no
\* registered worker matches.
DelegatedWithoutMatch ==
  /\ delegateResult' # delegateResult
  /\ MatchingAgents(activeAgents, delegateResult'.type) = {}

\* C3: a delegateTask call for a task type no registered worker matches
\* throws, creates no task and leaves every lane of the queue as it was.
C3_NoCapableWorkerNothingEnqueued ==
  [][DelegatedWithoutMatch =>
       /\ delegateResult'.outcome = "threw"
       /\ queues' = queues
       /\ size(queues') = size(queues)
       /\ tasks' = tasks]_vars

\* C3 witness: with the whole fleet deployed and a task in the queue,
\* delegateTask("unknown-type") has thrown.
C3_Witness ==
  /\ deployed = Len(fleet)
  /\ delegateResult.outcome = "threw"
  /\ delegateResult.type = S_unknown_type
  /\ size(queues) > 0

\* C4: the efficiency score of every worker is within [0.1, 1.0].
C4_EfficiencyBounds ==
  \A i \in 1..Len(activeAgents) :
    /\ activeAgents[i].efficiencyScore >= EfficiencyMin
    /\ activeAgents[i].efficiencyScore <= EfficiencyMax

\* C4 witness: a failed execution has left one worker at the lower bound
\* and a successful execution has left another at the upper bound.
C4_Witness ==
  \E t, u \in 1..Len(tasks) :
    /\ tasks[t].status = "failed" /\ procPc[t] = "done"
    /\ activeAgents[AgentIndex(activeAgents, tasks[t].assignedAgent)].efficiencyScore
         = EfficiencyMin
    /\ tasks[u].status = "completed"
    /\ activeAgents[AgentIndex(activeAgents, tasks[u].assignedAgent)].efficiencyScore
         = EfficiencyMax

\* C5: with a worker whose only capability is "pattern-recognition"
\* registered, delegateTask("analyze-behavior-patterns", {}, "medium") is
\* accepted and bound to that worker; the execution of the task raises the
\* worker's efficiency, and once processTask has ended the task is completed
\* and a task_results entry keyed by the task id exists.
HasTaskResult(t) ==
  \E e \in remoteKB \cup {localKnowledge[i] : i \in 1..Len(localKnowledge)} :
    /\ e.category = S_task_results
    /\ e.key = tasks[t].id

C5_DispatchAndComplete ==
  /\ [][/\ \E i \in 1..Len(activeAgents) :
             activeAgents[i].capabilities = <<S_pattern_recognition>>
        /\ delegateResult' # delegateResult
        /\ delegateResult'.type = S_analyze_behavior_patterns
        => /\ delegateResult'.outcome = "returned"
           /\ activeAgents[AgentIndex(activeAgents,
                 tasks'[delegateResult'.task].assignedAgent)].capabilities
                = <<S_pattern_recognition>>]_vars
  /\ [][\A t \in 1..Len(tasks) :
          /\ tasks[t].type = S_analyze_behavior_patterns
          /\ procPc[t] = "executing" /\ procPc'[t] # "executing"
          => LET a == AgentIndex(activeAgents, tasks[t].assignedAgent)
             IN  activeAgents'[a].efficiencyScore > activeAgents[a].efficiencyScore]_vars
  /\ [](\A t \in 1..Len(tasks) :
          tasks[t].type = S_analyze_behavior_patterns /\ procPc[t] = "done"
          => tasks[t].status = "completed" /\ HasTaskResult(t))

\* C6: once processTask has ended with the task completed, the knowledge
\* store (primary table or local Map) holds an entry of category
\* task_results whose key is the task id, whose value is the task's result
\* and whose confidence is 0.9.
C6_CompletedResultPersisted ==
  \A t \in 1..Len(tasks) :
    procPc[t] = "done" /\ tasks[t].status = "completed" =>
      \E e \in remoteKB \cup {localKnowledge[i] : i \in 1..Len(localKnowledge)} :
        /\ e.category = S_task_results
        /\ e.key = tasks[t].id
        /\ e.id = KnowledgeId(S_task_results, tasks[t].id)
        /\ e.value = tasks[t].result
        /\ e.confidence_score = TaskResultConfidence

\* C6 witness: processTask has ended for a completed task whose upsert
\* failed, so that its result is held by the local Map alone.
C6_Witness ==
  \E t \in 1..Len(tasks) :
    /\ procPc[t] = "done" /\ tasks[t].status = "completed"
    /\ kbCalls[TaskCaller(t)].primary = "failed"
    /\ \A e \in remoteKB : e.key # tasks[t].id

(***************************************************************************)
(* Properties of the knowledge store.                                      *)
(***************************************************************************)
LocalEntries == {localKnowledge[i] : i \in 1..Len(localKnowledge)}
HeldByPrimary(entry) ==
  \E r \in remoteKB : r.id = entry.id /\ r.value = entry.value
HeldByLocal(entry) ==
  \E e \in LocalEntries : e.id = entry.id /\ e.value = entry.value

\* The store entries of the access log.
StoresLogged ==
  Len(SelectSeq(accessLog, LAMBDA e : e.access_type = "store"))

\* C7 (as stated): after storeKnowledge has returned, the only store of the
\* run so far, the entry is held by the primary and not by the local Map
\* when the upsert succeeded, and by the local Map and not by the primary
\* when it failed or there is no primary.
C7_HeldByExactlyOneBackend ==
  \A c \in Callers :
    /\ kbCalls[c].op = "store" /\ kbCalls[c].pc = "returned"
    /\ StoresLogged = 1 /\ lastWrite.caller = c
    /\ \A d \in Callers \ {c} : kbCalls[d].op # "store"
    => IF kbCalls[c].primary = "ok"
       THEN HeldByPrimary(kbCalls[c].knowledge) /\ ~HeldByLocal(kbCalls[c].knowledge)
       ELSE HeldByLocal(kbCalls[c].knowledge) /\ ~HeldByPrimary(kbCalls[c].knowledge)

\* The step of a storeKnowledge call that writes the entry.
StoreWrites(c) ==
  /\ kbCalls'[c].op = "store"
  /\ kbCalls'[c].pc = "log" /\ kbCalls[c].pc # "log"

\* C7 (amended): the step of storeKnowledge that writes the entry writes it
\* to exactly one backend: to the primary, leaving the local Map as it was,
\* when the upsert succeeded; to the local Map, leaving the primary as it
\* was, when the upsert failed or there is no primary.
C7_CallWritesExactlyOneBackend ==
  [][\A c \in Callers : StoreWrites(c) =>
       LET entry == kbCalls'[c].knowledge
       IN  IF kbCalls'[c].primary = "ok"
           THEN /\ supabase = "client"
                /\ entry \in remoteKB'
                /\ localKnowledge' = localKnowledge
           ELSE /\ MapHas(localKnowledge', entry.id)
                /\ MapGet(localKnowledge', entry.id) = entry
                /\ remoteKB' = remoteKB]_vars

\* C7 witness: a storeKnowledge whose upsert succeeded has returned, and
\* the realtime handler has set its entry in the local Map as well.
C7_Witness ==
  \E c \in Callers :
    /\ kbCalls[c].op = "store" /\ kbCalls[c].pc = "returned"
    /\ kbCalls[c].primary = "ok"
    /\ kbCalls[c].knowledge \in remoteKB
    /\ kbCalls[c].knowledge \in LocalEntries

\* C8: with the primary failing, retrieveKnowledge(category, key) called
\* after storeKnowledge(category, key, value) by the same caller, no other
\* store in between, returns value.
C8_FallbackRoundTrip ==
  \A c \in Callers :
    /\ kbCalls[c].op = "retrieve" /\ kbCalls[c].pc = "returned"
    /\ remoteKB = {}
    /\ \A d \in Callers : kbCalls[d].primary \in {"failed", "none"}
    /\ kbCalls[c].primary = "failed"
    /\ lastWrite.target = "local" /\ lastWrite.caller = c
    /\ lastWrite.category = kbCalls[c].category
    /\ lastWrite.key = kbCalls[c].key
    => kbCalls[c].ret = lastWrite.value

\* The step of a retrieveKnowledge call that fixes the value it returns.
RetrieveDecides(c) ==
  /\ kbCalls'[c].op = "retrieve"
  /\ kbCalls'[c].pc \in {"log", "returned"}
  /\ kbCalls[c].pc \notin {"log"}
  /\ kbCalls'[c] # kbCalls[c]

\* C9: retrieveKnowledge returns the value of the row the primary gave;
\* when the primary failed or gave no row, the value the local Map holds
\* for category:key, and null when it holds none.
C9_RetrievePrimaryThenLocal ==
  [][\A c \in Callers : RetrieveDecides(c) =>
       LET knowledgeId == KnowledgeId(kbCalls'[c].category, kbCalls'[c].key)
       IN  kbCalls'[c].ret =
             IF kbCalls[c].pc = "update" THEN kbCalls[c].knowledge.value
             ELSE IF MapHas(localKnowledge, knowledgeId)
                  THEN MapGet(localKnowledge, knowledgeId).value
                  ELSE Null]_vars

\* The step of a queryKnowledge call that fixes its results.
QueryDecides(c) ==
  /\ kbCalls'[c].op = "query"
  /\ kbCalls'[c].pc = "log" /\ kbCalls[c].pc # "log"

\* C10 (as stated): when the search of the primary succeeded, with matches
\* or without, the results are those of the primary and no local entry is
\* among them.
C10_LocalOnlyOnPrimaryError ==
  [][\A c \in Callers : QueryDecides(c) /\ kbCalls'[c].primary = "ok" =>
       kbCalls'[c].results \in PrimarySearchResults(remoteKB, kbCalls'[c].query)]_vars

\* C10 (amended): when the search of the primary succeeded with at least
\* one match the results are those of the primary; when it failed, when
\* there is no primary, and when it succeeded with no match, the results
\* are those of the local search.
C10_LocalWhenPrimaryGaveNothing ==
  [][\A c \in Callers : QueryDecides(c) =>
       LET query == kbCalls'[c].query
           matching == {r \in remoteKB : MatchesQuery(r, query)}
           expected == LocalSearch(localKnowledge, query)
       IN  IF kbCalls'[c].primary = "ok" /\ matching # {}
           THEN /\ kbCalls'[c].results \in PrimarySearchResults(remoteKB, query)
                /\ \A k \in 1..Len(kbCalls'[c].results) :
                     kbCalls'[c].results[k] \in remoteKB
           ELSE kbCalls'[c].results
                  = SubSeq(expected, 1, Min(QueryLimit, Len(expected)))]_vars

\* C10 witness: a query whose search of the primary succeeded with no
\* match has returned an entry of the local Map that the primary does not
\* hold.
C10_Witness ==
  \E c \in Callers :
    /\ kbCalls[c].op = "query" /\ kbCalls[c].pc = "returned"
    /\ kbCalls[c].primary = "ok"
    /\ Len(kbCalls[c].results) > 0
    /\ kbCalls[c].results[1] \in LocalEntries
    /\ remoteKB = {}

IsNonIncreasing(results) ==
  \A i \in 1..(Len(results) - 1) :
    results[i].confidence_score >= results[i + 1].confidence_score

\* C11: queryKnowledge returns at most 10 entries in non-increasing order
\* of confidence; when the results come from the local Map they are
\* matching entries of the Map, as many as match up to 10, and no matching
\* entry left out has a higher confidence than one returned.
C11_TopTenByConfidence ==
  [][\A c \in Callers : QueryDecides(c) =>
       LET results == kbCalls'[c].results
           query == kbCalls'[c].query
           fromPrimary ==
             kbCalls'[c].primary = "ok" /\ \E r \in remoteKB : MatchesQuery(r, query)
           matching == {e \in LocalEntries : MatchesQuery(e, query)}
           returned == {results[i] : i \in 1..Len(results)}
       IN  /\ Len(results) <= QueryLimit
           /\ IsNonIncreasing(results)
           /\ ~fromPrimary =>
                /\ returned \subseteq matching
                /\ Cardinality(returned) = Len(results)
                /\ Len(results) = Min(QueryLimit, Cardinality(matching))
                /\ \A e \in matching \ returned : \A r \in returned :
                     e.confidence_score <= r.confidence_score]_vars

\* C11 witness: a query has returned 10 entries of both confidences from a
\* local Map that holds more matching entries than that, stored in an order
\* that is not the order of their confidence.
C11_Witness ==
  /\ kbCalls[Filler].op = "query" /\ kbCalls[Filler].pc = "returned"
  /\ Len(kbCalls[Filler].results) = QueryLimit
  /\ Len(localKnowledge) > QueryLimit
  /\ kbCalls[Filler].results[1].confidence_score
       > kbCalls[Filler].results[QueryLimit].confidence_score
  /\ ~IsNonIncreasing(localKnowledge)
  /\ \A i \in 1..Len(localKnowledge) :
       MatchesQuery(localKnowledge[i], kbCalls[Filler].query)

\* The entries a backend holds under an id after a step.
HeldAfter(target, id) ==
  IF target = "primary" THEN {r \in remoteKB' : r.id = id}
  ELSE {e \in LocalEntries' : e.id = id}

C13_DistinctPairsDistinctEntries ==
  [][\A c \in Callers : StoreWrites(c) =>
       \A e \in remoteKB \cup LocalEntries :
         e.category # kbCalls'[c].category \/ e.key # kbCalls'[c].key
         => /\ e.id # kbCalls'[c].knowledge.id
            /\ e \in remoteKB => e \in remoteKB'
            /\ e \in LocalEntries => e \in LocalEntries']_vars

\* C14: no knowledge-store call of processTask ends by throwing, and a task
\* that is completed stays completed whatever happens to the store and the
\* log.
C14_StoreFailureNeverFailsTask ==
  [][\A t \in 1..Len(tasks) :
       /\ kbCalls'[TaskCaller(t)].pc # "threw"
       /\ tasks[t].status = "completed" => tasks'[t].status = "completed"]_vars


(***************************************************************************)
(* Properties of the workflow engine.                                      *)
(***************************************************************************)
RunBefore(r) ==
  IF r <= Len(workflowRuns) THEN workflowRuns[r]
  ELSE [pos |-> 0, results |-> <<>>, outcome |-> "none"]
\* The positions the run of index r passes over or reaches in this step.
Considered(r) ==
  {p \in (RunBefore(r).pos + 1)..workflowRuns'[r].pos :
     p <= Len(workflowRuns'[r].workflow.steps)}
\* Step `step` of run `run` has a task of its type, made before task n.
EnqueuedBefore(run, step, n) ==
  \E i \in 1..Len(run.results) :
    /\ run.results[i].step = step
    /\ run.results[i].task < n
    /\ tasks[run.results[i].task].type = step

\* C15: a step of executeWorkflow that enqueues the task of a workflow step
\* does so when each prerequisite of that step has a task enqueued earlier
\* in the same run; the run moves forward through the declared steps, and
\* it passes over a step only when that step declares a prerequisite that
\* has no task yet, so a step without prerequisites is always enqueued.
C15_StepAfterPrerequisites ==
  [][\A r \in 1..Len(workflowRuns') :
       LET run == workflowRuns'[r]
           steps == run.workflow.steps
       IN  (run # RunBefore(r) /\ run.outcome \in {"awaiting", "returned"}) =>
             /\ run.pos > RunBefore(r).pos
             /\ \A p \in Considered(r) :
                  LET deps == dependenciesOf(run.workflow, steps[p])
                  IN  IF p = run.pos
                      THEN /\ run.outcome = "awaiting"
                           /\ tasks' = Append(tasks, tasks'[run.task])
                           /\ tasks'[run.task].type = steps[p]
                           /\ queues'.medium = Append(queues.medium, run.task)
                           /\ \A i \in 1..Len(deps) :
                                EnqueuedBefore(run, deps[i], run.task)
                      ELSE /\ deps # <<>>
                           /\ \E i \in 1..Len(deps) : ~HasResult(run.results, deps[i])]_vars

\* A run has enqueued a step that declares a prerequisite, and a run has
\* returned having passed over one.
C15_Witness ==
  /\ \E r \in 1..Len(workflowRuns) :
       /\ workflowRuns[r].outcome = "awaiting"
       /\ dependenciesOf(workflowRuns[r].workflow,
                         workflowRuns[r].workflow.steps[workflowRuns[r].pos]) # <<>>
  /\ \E r \in 1..Len(workflowRuns) :
       /\ workflowRuns[r].outcome = "returned"
       /\ Len(workflowRuns[r].results) < Len(workflowRuns[r].workflow.steps)

ResultSteps(run) == [i \in 1..Len(run.results) |-> run.results[i].step]

\* C16: a returned run of the workflow with steps A and B, B requiring A,
\* has dispatched A and then B, in whichever order the two are declared.
C16_SameGatingEitherOrder ==
  \A r \in 1..Len(workflowRuns) :
    (workflowRuns[r].outcome = "returned"
       /\ workflowRuns[r].workflow \in GatingWorkflows) =>
      ResultSteps(workflowRuns[r]) = <<StepA, StepB>>

\* C17: every task of a workflow carries the id of an active agent that can
\* handle its type.
C17_WorkflowTasksBound ==
  \A t \in 1..Len(tasks) :
    IsWorkflowTask(tasks[t]) =>
      \E a \in 1..Len(activeAgents) :
        /\ activeAgents[a].id = tasks[t].assignedAgent
        /\ canHandle(activeAgents[a].capabilities, tasks[t].type)


(***************************************************************************)
(* Properties of the agent registry.                                       *)
(***************************************************************************)
\* The entries the registry holds under worker id `id`: rows of the table
\* agents ("sqlite"), rows of stealth_agent_registry and entries of
\* localAgentRegistry (the Supabase-backed class).
RegistryEntries(id) ==
  IF ecosystem.version = "sqlite"
  THEN {<<"agents", r.config.capabilities>> : r \in {x \in sqliteDb.agents : x.id = id}}
  ELSE {<<"stealth_agent_registry", r.capabilities>> :
          r \in {x \in ecosystem.stealth_agent_registry : x.agent_id = id}}
       \cup {<<"localAgentRegistry", ecosystem.localAgentRegistry[i].value.capabilities>> :
               i \in {k \in 1..Len(ecosystem.localAgentRegistry) :
                        ecosystem.localAgentRegistry[k].id = id}}

\* C18: when two registrations of one worker id with different capability
\* lists have ended, and no later one names that id, the registry holds
\* exactly one entry for the id, with the capabilities of the second.
C18_RegistrationIdempotent ==
  \A i, j \in 1..Len(ecosystem.calls) :
    LET first == ecosystem.calls[i]
        second == ecosystem.calls[j]
    IN  (/\ i < j
         /\ first.agentSpec.id = second.agentSpec.id
         /\ first.agentSpec.capabilities # second.agentSpec.capabilities
         /\ RegistrationEnded(first) /\ RegistrationEnded(second)
         /\ \A k \in (j + 1)..Len(ecosystem.calls) :
              ecosystem.calls[k].agentSpec.id # second.agentSpec.id)
        => \E e \in RegistryEntries(second.agentSpec.id) :
             /\ RegistryEntries(second.agentSpec.id) = {e}
             /\ e[2] = second.agentSpec.capabilities


(***************************************************************************)
(* Properties of the binding of tasks to agents.                           *)
(***************************************************************************)
\* The AgentInstance deployAgentFleet has constructed and is initializing:
\* it is not yet in the Map.
InitializingAgents ==
  IF deployed < Len(fleet) THEN {fleet[deployed + 1].id} ELSE {}

C20_AssignedWhilePending ==
  [][\A t \in 1..Len(tasks') :
       tasks'[t].status \in {"in-progress", "completed", "failed"} =>
         /\ t <= Len(tasks)
         /\ tasks[t].assignedAgent # ""
         /\ tasks'[t].assignedAgent = tasks[t].assignedAgent]_vars

\* A task has completed and a task has failed, each with its agent, and
\* the ticker has dequeued a task of a workflow, which has no agent and is
\* still pending.
C20_Witness ==
  /\ \E t \in 1..Len(tasks) :
       tasks[t].status = "completed" /\ tasks[t].assignedAgent # ""
  /\ \E t \in 1..Len(tasks) :
       tasks[t].status = "failed" /\ tasks[t].assignedAgent # ""
  /\ \E t \in 1..Len(tasks) :
       /\ IsWorkflowTask(tasks[t])
       /\ tasks[t].status = "pending"
       /\ t \notin Queued(queues)
       /\ \E r \in 1..Len(workflowRuns) : HasResult(workflowRuns[r].results, tasks[t].type)


(***************************************************************************)
(* Properties of the execution of a task by its agent.                     *)
(***************************************************************************)
BoundAgent(t) == AgentIndex(activeAgents, tasks[t].assignedAgent)

\* C21: a step in which the handler of a task in progress returns makes the
\* task completed with the result, the efficiency of its agent
\* min(1.0, previous + 0.01) and the status of its agent active.
C21_SuccessCompletesAndHeals ==
  [][\A t \in 1..Len(tasks) :
       (tasks[t].status = "in-progress"
          /\ tasks'[t] # tasks[t]
          /\ performTaskExecution(tasks[t].type, tasks[t].parameters).ok) =>
         /\ tasks'[t].status = "completed"
         /\ tasks'[t].result = performTaskExecution(tasks[t].type, tasks[t].parameters).value
         /\ tasks'[t].result # Undefined
         /\ activeAgents'[BoundAgent(t)].efficiencyScore =
              Min(EfficiencyMax,
                  activeAgents[BoundAgent(t)].efficiencyScore + SuccessIncrement)
         /\ activeAgents'[BoundAgent(t)].status = "active"]_vars

\* The learning coordinator, in status error since before the first task was
\* created and with no task failed since, has executed a task and is active.
C21_Witness ==
  /\ activeAgents[1].status = "active"
  /\ activeAgents[1].taskHistory # <<>>
  /\ activeAgents[1].efficiencyScore < InitialEfficiency
  /\ \A t \in 1..Len(tasks) : tasks[t].status # "failed"
  /\ \E t \in 1..Len(tasks) :
       tasks[t].status = "completed" /\ tasks[t].assignedAgent = activeAgents[1].id


\* C22: a step that makes a task failed is one in which the handler of the
\* task, in progress, throws: the error is attached to the task, the
\* efficiency of its agent becomes max(0.1, previous - 0.05), the status of
\* its agent becomes error, and the task is not in the queue afterwards.
C22_FailedOnlyByFailedExecution ==
  [][\A t \in 1..Len(tasks) :
       (tasks'[t].status = "failed" /\ tasks[t].status # "failed") =>
         /\ tasks[t].status = "in-progress"
         /\ ~performTaskExecution(tasks[t].type, tasks[t].parameters).ok
         /\ tasks'[t].error = performTaskExecution(tasks[t].type, tasks[t].parameters).value
         /\ activeAgents'[BoundAgent(t)].efficiencyScore =
              Max(EfficiencyMin,
                  activeAgents[BoundAgent(t)].efficiencyScore - FailurePenalty)
         /\ activeAgents'[BoundAgent(t)].status = "error"
         /\ t \notin Queued(queues')]_vars


(***************************************************************************)
(* Properties of the access log.                                           *)
(***************************************************************************)
\* C23: a retrieveKnowledge call returns only from its logging, and when it
\* goes to its logging the access log ends with an entry of kind retrieve
\* with the requester and the key category:key.
C23_EveryRetrieveLogged ==
  [][\A c \in Callers :
       (kbCalls'[c].op = "retrieve" /\ kbCalls'[c] # kbCalls[c]) =>
         /\ kbCalls'[c].pc = "returned" =>
              kbCalls[c].op = "retrieve" /\ kbCalls[c].pc = "log"
         /\ kbCalls'[c].pc = "log" =>
              /\ accessLog' # <<>>
              /\ accessLog'[Len(accessLog')].access_type = "retrieve"
              /\ accessLog'[Len(accessLog')].agent_id =
                   (IF kbCalls'[c].agent = "" THEN "unknown" ELSE kbCalls'[c].agent)
              /\ accessLog'[Len(accessLog')].knowledge_key =
                   KnowledgeId(kbCalls'[c].category, kbCalls'[c].key)]_vars


\* C24: a step that changes the access log leaves it with at most 1000
\* entries: the entries it had, in their order, followed by one new entry,
\* less the first entry when it had 1000 already.
C24_AccessLogCapped ==
  [][accessLog' # accessLog =>
       /\ Len(accessLog') <= AccessLogCap
       /\ accessLog' # <<>>
       /\ accessLog' =
            Append(IF Len(accessLog) < AccessLogCap THEN accessLog ELSE Tail(accessLog),
                   accessLog'[Len(accessLog')])]_vars

\* The log is at its cap, its oldest entry gone and an entry of the run at
\* its end.
C24_Witness ==
  /\ Len(accessLog) = AccessLogCap
  /\ accessLog[1] # PastEntry(1)
  /\ accessLog[2] = PastEntry(4)
  /\ accessLog[AccessLogCap].agent_id # PastLogger


(***************************************************************************)
(* Properties of the ticker.                                               *)
(***************************************************************************)
InProgress == {t \in 1..Len(tasks) : tasks[t].status = "in-progress"}

\* C25: the ticker can fire whenever it is started and the queue has work,
\* whatever executions are under way, and a step takes at most one task
\* from the queue and puts at most one task in progress.
C25_TickerDoesNotWait ==
  /\ []((tickerStarted /\ hasWork(queues)) => ENABLED Tick)
  /\ [][/\ size(queues') >= size(queues) - 1
        /\ Cardinality({t \in 1..Len(tasks') : tasks'[t].status = "in-progress"}
                         \ InProgress) <= 1]_vars

\* Two tasks are in progress at the same time, the timer of neither having
\* fired.
C25_Witness ==
  \E t, u \in InProgress :
    t # u /\ procPc[t] = "executing" /\ procPc[u] = "executing"


\* C26: when the update a retrieveKnowledge sends after it found the row in
\* the primary is applied, the access counter of the row is one more than
\* it was.
C26_RetrieveCountsOnce ==
  [][\A c \in Callers :
       (/\ kbCalls[c].op = "retrieve"
        /\ kbCalls[c].pc = "update"
        /\ kbCalls'[c].pc # "update"
        /\ changeFeed' # changeFeed) =>
         \A r \in remoteKB :
           r.id = kbCalls[c].knowledge.id =>
             \E q \in remoteKB' : q.id = r.id /\ q.access_count = r.access_count + 1]_vars


\* C27: a task that is completed or failed keeps its status in every step.
C27_TerminalStatesFinal ==
  [][\A t \in 1..Len(tasks) :
       tasks[t].status \in {"completed", "failed"} =>
         tasks'[t].status = tasks[t].status]_vars


\* C28: the agent of every task in progress has status processing.
C28_ProcessingWhileInFlight ==
  \A t \in InProgress : activeAgents[BoundAgent(t)].status = "processing"


\* C29: a retrieveKnowledge(category, key) that has returned, called after
\* the most recent storeKnowledge of that (category, key) had returned,
\* has returned the value of that store, whichever calls the primary
\* answered and whichever it failed.
C29_ReadYourWrites ==
  /\ kbCalls[Filler].op = "retrieve" /\ kbCalls[Filler].pc = "returned"
  /\ lastWrite.target # "none"
  /\ lastWrite.category = kbCalls[Filler].category
  /\ lastWrite.key = kbCalls[Filler].key
  => kbCalls[Filler].ret = lastWrite.value


\* C30: from some point on the queue is empty and every task that was put
\* in it, by delegateTask or by executeWorkflow, is completed or failed.
C30_EveryTaskEnds ==
  <>[](/\ ~hasWork(queues)
       /\ \A t \in 1..Len(tasks) : tasks[t].status \in {"completed", "failed"})
====
